---- MODULE Spec2Model ----
(***************************************************************************)
(* Model of the relationship builder, the policy store, the deduplicator,  *)
(* the classifiers, the quality scorers and the validator of the           *)
(* tax-policy crawler (src/crawler) and its backend (src/backend).         *)
(*                                                                         *)
(* The MongoDB collection 'policies' is a sequence of documents in natural *)
(* (insertion) order.  A title is a sequence of words, so that Python's    *)
(* `key in title` and Mongo's {'$regex': text} are both the search for a   *)
(* contiguous sub-sequence.  The body of a document is reduced to the      *)
(* titles its citation patterns match.  list(set(...)) yields them in an   *)
(* order that depends on the string hashing of the Python process, which   *)
(* is seeded anew for every process: a process carries a seed, the bodies  *)
(* whose cited titles it yields in the other order.                        *)
(***************************************************************************)
EXTENDS Integers, Sequences, FiniteSets, TLC

VARIABLES
    collection,     \* db.collection: the stored policy documents
    run,            \* the frame of PolicyRelationshipBuilder.build_all_relationships
    dbc,            \* the frame of MongoDBConnectorV2.build_legislation_chain
    corpus0,        \* history: the corpus the behaviour started from
    built,          \* history: the corpus as the last completed build left it
    relationships,  \* db.relationships_collection
    workers,        \* concurrent callers of the relationship updates
    stats,          \* what the deduplicate_policies runs since the last crawl returned
    lastOp,         \* history: the operation that ran last
    input,          \* the arguments of the function under consideration
    output,         \* what the last call returned; NoCall before any call
    compliance,     \* BaseCrawler.compliance and the requests the session has sent
    tasks,          \* the crawl tasks: db.crawl_tasks, CrawlerTaskManager.tasks
    jobs            \* the frames of the phase and of the background crawl jobs

vars == <<collection, run, dbc, corpus0, built, relationships, workers, stats, lastOp,
          input, output, compliance, tasks, jobs>>

----------------------------------------------------------------------------
(* Bounds *)

NumDocs == 3

(* Program values *)

None == 0

PolicyIds == 1..NumDocs

\* an identity that names no stored document
GhostId == NumDocs + 1

NoDoc == [policy_id |-> None]

\* no crawler, no task and no job
NoCrawler == [robots_cache |-> <<>>]

NoTasks == <<>>

NoJobs == <<>>

NoCall == [fn |-> "none"]

NoGraph == <<"none">>

----------------------------------------------------------------------------
(* Sequences *)

Min(S) == CHOOSE x \in S : \A y \in S : x <= y

Take(s, n) == SubSeq(s, 1, IF Len(s) < n THEN Len(s) ELSE n)

Range(s) == {s[i] : i \in DOMAIN s}

NoRepeat(s) == \A i, j \in DOMAIN s : s[i] = s[j] => i = j

\* `key in title`, {'title': {'$regex': key}}
Contains(key, title) ==
    \E i \in 0..(Len(title) - Len(key)) : SubSeq(title, i + 1, i + Len(key)) = key

\* set(cited): every element once
RECURSIVE Distinct(_)
Distinct(s) ==
    IF s = <<>> THEN <<>>
    ELSE LET rest == Distinct(SubSeq(s, 1, Len(s) - 1))
             x == s[Len(s)]
         IN IF x \in Range(rest) THEN rest ELSE Append(rest, x)

----------------------------------------------------------------------------
(* The configuration tables of PolicyRelationshipBuilder.__init__ *)

super_law_mapping == <<
    [key |-> <<"VAT", "ProvisionalRegulation">>,
     parent_title |-> <<"PRC", "VAT", "ProvisionalRegulation">>],
    [key |-> <<"PRC", "VAT", "ProvisionalRegulation">>,
     parent_title |-> <<"TaxCollectionLaw">>],
    [key |-> <<"EIT", "Law">>,
     parent_title |-> <<"TaxCollectionLaw">>],
    [key |-> <<"EIT", "Law", "ImplementingRegulation">>,
     parent_title |-> <<"EIT", "Law">>],
    [key |-> <<"IIT", "Law">>,
     parent_title |-> <<"TaxCollectionLaw">>],
    [key |-> <<"IIT", "Law", "ImplementingRegulation">>,
     parent_title |-> <<"IIT", "Law">>],
    [key |-> <<"TaxCollectionLaw", "ImplementingRules">>,
     parent_title |-> <<"TaxCollectionLaw">>],
    [key |-> <<"InvoiceManagement", "Measures">>,
     parent_title |-> <<"TaxCollectionLaw">>] >>

tax_root_laws == <<
    [tax_type |-> "VAT", title |-> <<"PRC", "VAT", "ProvisionalRegulation">>],
    [tax_type |-> "EIT", title |-> <<"PRC", "EIT", "Law">>],
    [tax_type |-> "IIT", title |-> <<"PRC", "IIT", "Law">>],
    [tax_type |-> "Procedure", title |-> <<"PRC", "TaxCollectionLaw">>],
    [tax_type |-> "PropertyTax", title |-> <<"PRC", "PropertyTax", "ProvisionalRegulation">>],
    [tax_type |-> "DeedTax", title |-> <<"PRC", "DeedTax", "ProvisionalRegulation">>],
    [tax_type |-> "StampTax", title |-> <<"PRC", "StampTax", "ProvisionalRegulation">>] >>

common_keywords == <<
    <<"VAT">>, <<"EIT">>, <<"IIT">>,
    <<"SmallScaleTaxpayer">>, <<"GeneralTaxpayer">>,
    <<"RnDExpense">>, <<"SpecialAdditionalDeduction">>,
    <<"TaxPreference">>, <<"TaxReduction">>,
    <<"TaxFiling">>, <<"InvoiceManagement">> >>

----------------------------------------------------------------------------
(* The store *)

\* collection.find_one({'policy_id': policy_id})
find_by_id(coll, policy_id) ==
    LET hits == {i \in DOMAIN coll : coll[i].policy_id = policy_id}
    IN IF hits = {} THEN NoDoc ELSE coll[Min(hits)]

\* collection.find_one({'title': {'$regex': text}}): the first in natural order
find_one_title(coll, text) ==
    LET hits == {i \in DOMAIN coll : Contains(text, coll[i].title)}
    IN IF hits = {} THEN NoDoc ELSE coll[Min(hits)]

\* {'$set': fields} applied to one document
SetFields(doc, fields) ==
    [f \in DOMAIN doc \cup DOMAIN fields |->
        IF f \in DOMAIN fields THEN fields[f] ELSE doc[f]]

\* collection.update_one({'policy_id': policy_id}, {'$set': fields})
update_one(coll, policy_id, fields) ==
    LET hits == {i \in DOMAIN coll : coll[i].policy_id = policy_id}
    IN IF hits = {} THEN coll
       ELSE [coll EXCEPT ![Min(hits)] = SetFields(coll[Min(hits)], fields)]

----------------------------------------------------------------------------
(* PolicyRelationshipBuilder: the pure parts *)

Reverse(s) == [i \in 1..Len(s) |-> s[Len(s) + 1 - i]]

\* The body is kept as the titles its citation patterns match; list(set(cited))
\* yields them in the order of the process's string hashing.
_extract_cited_policies(content, seed) ==
    IF content \in seed THEN Reverse(Distinct(content)) ELSE Distinct(content)

MappingHits(coll, title) ==
    {k \in DOMAIN super_law_mapping :
        /\ Contains(super_law_mapping[k].key, title)
        /\ find_one_title(coll, super_law_mapping[k].parent_title).policy_id # None}

CitedHits(coll, cited) ==
    {k \in DOMAIN cited :
        LET c == find_one_title(coll, cited[k])
        IN c.policy_id # None /\ c.document_level \in {"L1", "L2"}}

RootLawHits(coll, tax_types) ==
    {k \in DOMAIN tax_types :
        \E j \in DOMAIN tax_root_laws :
            /\ tax_root_laws[j].tax_type = tax_types[k]
            /\ find_one_title(coll, tax_root_laws[j].title).policy_id # None}

RootLawTitle(tax_type) ==
    LET j == CHOOSE j \in DOMAIN tax_root_laws : tax_root_laws[j].tax_type = tax_type
    IN tax_root_laws[j].title

\* Strategy 1 the mapping table, 2 the cited titles, 3 the root law of the tax type.
find_parent_policy(coll, policy, seed) ==
    LET cited == _extract_cited_policies(policy.content, seed)
        h1 == MappingHits(coll, policy.title)
        h2 == CitedHits(coll, cited)
        h3 == RootLawHits(coll, policy.tax_type)
    IN IF h1 # {}
         THEN find_one_title(coll, super_law_mapping[Min(h1)].parent_title).policy_id
       ELSE IF h2 # {}
         THEN find_one_title(coll, cited[Min(h2)]).policy_id
       ELSE IF h3 # {}
         THEN find_one_title(coll, RootLawTitle(policy.tax_type[Min(h3)])).policy_id
       ELSE None

_extract_keywords(title) ==
    LET Hit(kw) == Contains(kw, title) IN SelectSeq(common_keywords, Hit)

RECURSIVE PolicyIdsOf(_)
PolicyIdsOf(docs) ==
    IF docs = <<>> THEN <<>>
    ELSE <<docs[1].policy_id>> \o PolicyIdsOf(Tail(docs))

RECURSIVE AppendNew(_, _)
AppendNew(acc, ids) ==
    IF ids = <<>> THEN acc
    ELSE AppendNew(IF ids[1] \in Range(acc) THEN acc ELSE Append(acc, ids[1]), Tail(ids))

SameTaxAndLevel(coll, policy) ==
    LET Hit(d) == /\ d.policy_id # policy.policy_id
                  /\ Range(d.tax_type) \cap Range(policy.tax_type) # {}
                  /\ d.document_level = policy.document_level
    IN IF policy.tax_type = <<>> THEN <<>>
       ELSE PolicyIdsOf(Take(SelectSeq(coll, Hit), 5))

TitleMatches(coll, policy, keyword) ==
    LET Hit(d) == d.policy_id # policy.policy_id /\ Contains(keyword, d.title)
    IN PolicyIdsOf(Take(SelectSeq(coll, Hit), 3))

RECURSIVE ByKeywords(_, _, _, _)
ByKeywords(coll, policy, keywords, acc) ==
    IF keywords = <<>> THEN acc
    ELSE ByKeywords(coll, policy, Tail(keywords),
                    AppendNew(acc, TitleMatches(coll, policy, keywords[1])))

find_related_policies(coll, policy) ==
    Take(ByKeywords(coll, policy, _extract_keywords(policy.title),
                    SameTaxAndLevel(coll, policy)), 10)

RECURSIVE ResolveAll(_, _)
ResolveAll(coll, cited) ==
    IF cited = <<>> THEN <<>>
    ELSE LET p == find_one_title(coll, cited[1])
         IN (IF p.policy_id # None THEN <<p.policy_id>> ELSE <<>>)
            \o ResolveAll(coll, Tail(cited))

\* The titles of the catalogue carry no citation, so content + ' ' + title
\* cites what the content cites.
link_qa_to_policy(coll, qa_policy, seed) ==
    ResolveAll(coll, _extract_cited_policies(qa_policy.content, seed))

----------------------------------------------------------------------------
(* PolicyRelationshipBuilder.build_all_relationships, one store update a step *)

IdleRun ==
    [pc |-> "idle", batch_size |-> 0, total |-> 0, skip |-> 0, policies |-> <<>>,
     i |-> 0, chain |-> <<>>, current_id |-> None, visited |-> {}, seed |-> {}]

\* list(collection.find().skip(skip).limit(batch_size))
LoadBatch(coll, skip, batch_size) ==
    SubSeq(coll, skip + 1,
           IF skip + batch_size < Len(coll) THEN skip + batch_size ELSE Len(coll))

\* total = count_documents({}); skip = 0; while skip < total: the first batch
BeginRun(coll, batch_size, seed) ==
    IF Len(coll) = 0 THEN IdleRun
    ELSE [IdleRun EXCEPT !.pc = "parent", !.batch_size = batch_size,
                         !.total = Len(coll), !.skip = 0,
                         !.policies = LoadBatch(coll, 0, batch_size), !.i = 1,
                         !.seed = seed]

\* StepParent without `if not policy.get('parent_policy_id')`
StepParent_Overwrite(coll, r) ==
    LET policy == r.policies[r.i]
        parent_id == find_parent_policy(coll, policy, r.seed)
        next == [r EXCEPT !.pc = "walk", !.chain = <<>>,
                          !.current_id = policy.policy_id, !.visited = {}]
    IN IF parent_id # None
       THEN [coll |-> update_one(coll, policy.policy_id, [parent_policy_id |-> parent_id]),
             run |-> next]
       ELSE [coll |-> coll, run |-> next]

\* 1. the parent, when the document read with the batch had none
StepParent(coll, r) ==
    LET policy == r.policies[r.i]
        parent_id == find_parent_policy(coll, policy, r.seed)
        next == [r EXCEPT !.pc = "walk", !.chain = <<>>,
                          !.current_id = policy.policy_id, !.visited = {}]
    IN IF policy.parent_policy_id = None /\ parent_id # None
       THEN [coll |-> update_one(coll, policy.policy_id, [parent_policy_id |-> parent_id]),
             run |-> next]
       ELSE [coll |-> coll, run |-> next]

\* StepWalk with `while current_id`, the visited set unused
StepWalk_NoGuard(coll, r) ==
    IF r.current_id # None
    THEN LET cur == r.current_id
             seen == [r EXCEPT !.visited = r.visited \cup {cur},
                               !.chain = Append(r.chain, cur)]
             policy == find_by_id(coll, cur)
             parent_id == find_parent_policy(coll, policy, r.seed)
         IN IF policy.policy_id = None
            THEN [coll |-> coll, run |-> [seen EXCEPT !.pc = "chain"]]
            ELSE IF policy.parent_policy_id # None
            THEN [coll |-> coll,
                  run |-> [seen EXCEPT !.current_id = policy.parent_policy_id]]
            ELSE IF parent_id # None
            THEN [coll |-> update_one(coll, cur, [parent_policy_id |-> parent_id]),
                  run |-> [seen EXCEPT !.current_id = parent_id]]
            ELSE [coll |-> coll, run |-> [seen EXCEPT !.pc = "chain"]]
    ELSE [coll |-> coll, run |-> [r EXCEPT !.pc = "chain"]]

\* build_legislation_chain: one turn of `while current_id and current_id not in visited`
StepWalk(coll, r) ==
    IF r.current_id # None /\ r.current_id \notin r.visited
    THEN LET cur == r.current_id
             seen == [r EXCEPT !.visited = r.visited \cup {cur},
                               !.chain = Append(r.chain, cur)]
             policy == find_by_id(coll, cur)
             parent_id == find_parent_policy(coll, policy, r.seed)
         IN IF policy.policy_id = None
            THEN [coll |-> coll, run |-> [seen EXCEPT !.pc = "chain"]]
            ELSE IF policy.parent_policy_id # None
            THEN [coll |-> coll,
                  run |-> [seen EXCEPT !.current_id = policy.parent_policy_id]]
            ELSE IF parent_id # None
            THEN [coll |-> update_one(coll, cur, [parent_policy_id |-> parent_id]),
                  run |-> [seen EXCEPT !.current_id = parent_id]]
            ELSE [coll |-> coll, run |-> [seen EXCEPT !.pc = "chain"]]
    ELSE [coll |-> coll, run |-> [r EXCEPT !.pc = "chain"]]

\* 2. the chain and its root, on the document the walk started from
StepChain(coll, r) ==
    LET policy_id == r.policies[r.i].policy_id
        chain == r.chain
        next == [r EXCEPT !.pc = "related"]
    IN IF chain # <<>>
       THEN [coll |-> update_one(coll, policy_id,
                         [legislation_chain |-> chain, root_law_id |-> chain[Len(chain)]]),
             run |-> next]
       ELSE [coll |-> coll, run |-> next]

\* 3. the related policies, except for L1
StepRelated(coll, r) ==
    LET policy == r.policies[r.i]
        related_ids == find_related_policies(coll, policy)
        next == [r EXCEPT !.pc = "qa"]
    IN IF policy.document_level # "L1" /\ related_ids # <<>>
       THEN [coll |-> update_one(coll, policy.policy_id,
                                 [related_policy_ids |-> related_ids]),
             run |-> next]
       ELSE [coll |-> coll, run |-> next]

\* the next policy of the batch, the next batch, or the end of the run
Advance(coll, r) ==
    LET fresh == [r EXCEPT !.pc = "parent", !.chain = <<>>, !.current_id = None,
                           !.visited = {}]
        skip == r.skip + r.batch_size
    IN IF r.i < Len(r.policies) THEN [fresh EXCEPT !.i = r.i + 1]
       ELSE IF skip < r.total
       THEN [fresh EXCEPT !.skip = skip, !.i = 1,
                          !.policies = LoadBatch(coll, skip, r.batch_size)]
       ELSE IdleRun

\* 4. the references of an L4 answer
StepQA(coll, r) ==
    LET policy == r.policies[r.i]
        reference_ids == link_qa_to_policy(coll, policy, r.seed)
        after == IF policy.document_level = "L4" /\ reference_ids # <<>>
                 THEN update_one(coll, policy.policy_id,
                                 [qa_reference_ids |-> reference_ids])
                 ELSE coll
    IN [coll |-> after, run |-> Advance(after, r)]

Step(coll, r) ==
    CASE r.pc = "parent" -> StepParent(coll, r)
      [] r.pc = "walk" -> StepWalk(coll, r)
      [] r.pc = "chain" -> StepChain(coll, r)
      [] r.pc = "related" -> StepRelated(coll, r)
      [] r.pc = "qa" -> StepQA(coll, r)

RECURSIVE RunToEnd(_, _)
RunToEnd(coll, r) ==
    IF r.pc = "idle" THEN coll
    ELSE LET s == Step(coll, r) IN RunToEnd(s.coll, s.run)

\* the corpus one uninterrupted build_all_relationships leaves
FullBuild(coll, batch_size, seed) ==
    RunToEnd(coll, BeginRun(coll, batch_size, seed))

----------------------------------------------------------------------------
(* MongoDBConnectorV2 *)

IdleDbc == [pc |-> "idle", chain |-> <<>>, current_id |-> None]

\* DbWalk with the cycle test made before the current identity is appended
DbWalk_LateGuard(coll, c) ==
    LET policy == find_by_id(coll, c.current_id)
        chain == Append(c.chain, c.current_id)
    IN IF c.current_id = None \/ policy.policy_id = None
       THEN [c EXCEPT !.pc = "store"]
       ELSE [c EXCEPT !.chain = chain,
                      !.current_id = policy.parent_policy_id,
                      !.pc = IF policy.parent_policy_id \in Range(c.chain)
                             THEN "store" ELSE "walk"]

\* build_legislation_chain: one turn of `while current_id`
DbWalk(coll, c) ==
    LET policy == find_by_id(coll, c.current_id)
        chain == Append(c.chain, c.current_id)
    IN IF c.current_id = None \/ policy.policy_id = None
       THEN [c EXCEPT !.pc = "store"]
       ELSE [c EXCEPT !.chain = chain,
                      !.current_id = policy.parent_policy_id,
                      !.pc = IF policy.parent_policy_id \in Range(chain)
                             THEN "store" ELSE "walk"]

RECURSIVE StoreOnAll(_, _, _, _)
StoreOnAll(coll, ids, chain, root_id) ==
    IF ids = <<>> THEN coll
    ELSE StoreOnAll(update_one(coll, ids[1],
                               [legislation_chain |-> chain, root_law_id |-> root_id]),
                    Tail(ids), chain, root_id)

\* build_legislation_chain: `for cid in chain: update_one(...)`
DbStore(coll, c) ==
    LET root_id == IF c.chain = <<>> THEN None ELSE c.chain[Len(c.chain)]
    IN StoreOnAll(coll, c.chain, c.chain, root_id)

\* PolicyDocument(...): the relationship fields take their defaults
PolicyDocument(extracted) ==
    SetFields(extracted,
              [parent_policy_id |-> None, root_law_id |-> None,
               legislation_chain |-> <<>>, related_policy_ids |-> <<>>,
               cited_by_policy_ids |-> <<>>, qa_reference_ids |-> <<>>])

\* policy.model_dump(): every field of the model, defaults included
_convert_policy_to_dict(policy) == [f \in DOMAIN policy |-> policy[f]]

insert_policy(coll, policy) ==
    LET doc_dict == _convert_policy_to_dict(policy)
        existing == {i \in DOMAIN coll :
                        coll[i].policy_id = policy.policy_id \/ coll[i].url = policy.url}
    IN IF existing # {} THEN update_one(coll, policy.policy_id, doc_dict)
       ELSE Append(coll, doc_dict)

\* what a crawler extracts from the page a stored document came from
Extracted(doc) ==
    [policy_id |-> doc.policy_id, url |-> doc.url, title |-> doc.title,
     content |-> doc.content, tax_type |-> doc.tax_type,
     document_level |-> doc.document_level]

----------------------------------------------------------------------------
(* The corpora the builder is run on *)

TaxCollectionLaw ==
    [title |-> <<"PRC", "TaxCollectionLaw">>, content |-> <<>>,
     tax_type |-> <<"Procedure">>, document_level |-> "L1"]

EITLaw ==
    [title |-> <<"PRC", "EIT", "Law">>, content |-> <<>>,
     tax_type |-> <<"EIT">>, document_level |-> "L1"]

EITRegulation ==
    [title |-> <<"PRC", "EIT", "Law", "ImplementingRegulation">>,
     content |-> << <<"PRC", "EIT", "Law">> >>,
     tax_type |-> <<"EIT">>, document_level |-> "L1"]

EITNotice ==
    [title |-> <<"On", "EIT", "TaxPreference", "Notice">>,
     content |-> << <<"PRC", "EIT", "Law", "ImplementingRegulation">>,
                    <<"PRC", "EIT", "Law">> >>,
     tax_type |-> <<"EIT">>, document_level |-> "L2"]

EITAnswer ==
    [title |-> <<"EIT", "SettlementAnswers">>,
     content |-> << <<"On", "EIT", "TaxPreference", "Notice">>,
                    <<"PRC", "EIT", "Law">> >>,
     tax_type |-> <<"EIT">>, document_level |-> "L4"]

Catalogue == <<EITAnswer, EITRegulation, EITLaw, EITNotice, TaxCollectionLaw>>

Doc(id, kind, parent_id) ==
    SetFields(PolicyDocument([policy_id |-> id, url |-> id, title |-> kind.title,
                              content |-> kind.content, tax_type |-> kind.tax_type,
                              document_level |-> kind.document_level]),
              [parent_policy_id |-> parent_id])

ParentChoices == {None, GhostId} \cup PolicyIds

\* any documents of the catalogue in any order, at most one with a parent already
CatalogueCorpora ==
    {[i \in PolicyIds |-> Doc(i, Catalogue[k[i]], p[i])] :
        k \in {f \in [PolicyIds -> DOMAIN Catalogue] :
                  \A i, j \in PolicyIds : f[i] = f[j] => i = j},
        p \in {g \in [PolicyIds -> ParentChoices] :
                  Cardinality({i \in PolicyIds : g[i] # None}) <= 1}}

\* the first documents of the catalogue under every assignment of parents
GraphCorpora ==
    {[i \in PolicyIds |-> Doc(i, Catalogue[i], p[i])] :
        p \in [PolicyIds -> ParentChoices]}

BatchSizes == {1, NumDocs}

\* the orders a process may yield the cited titles of the catalogue's bodies in
HashSeeds ==
    SUBSET {c \in {Catalogue[k].content : k \in DOMAIN Catalogue} :
               Len(Distinct(c)) > 1}

----------------------------------------------------------------------------
(* The next-state relation of the relationship build *)

Quiet == run.pc = "idle" /\ dbc.pc = "idle"

\* Each stage runs to completion before the next begins: the store is as a
\* completed build left it, or no build has touched it yet.
Settled == built # NoGraph \/ collection = corpus0

others == <<relationships, workers, stats, input, output, compliance, tasks, jobs>>

Rest ==
    /\ run = IdleRun
    /\ dbc = IdleDbc
    /\ corpus0 = collection
    /\ built = NoGraph
    /\ relationships = {}
    /\ workers = <<>>
    /\ stats = <<>>
    /\ lastOp = "none"
    /\ input = NoCall
    /\ output = NoCall
    /\ compliance = NoCrawler
    /\ tasks = NoTasks
    /\ jobs = NoJobs

Init == collection \in CatalogueCorpora \cup GraphCorpora /\ Rest

StoreInit == collection \in GraphCorpora /\ Rest

\* what a finished run is recorded as
Finished ==
    IF built # NoGraph THEN "rebuilt"
    ELSE IF lastOp = "interrupted" THEN "resumed"
    ELSE "built"

Apply(s) ==
    /\ collection' = s.coll
    /\ run' = s.run
    /\ built' = IF s.run.pc = "idle" /\ built = NoGraph THEN s.coll ELSE built
    /\ lastOp' = IF s.run.pc = "idle" THEN Finished ELSE lastOp
    /\ UNCHANGED <<dbc, corpus0, others>>

StartBuild ==
    /\ Quiet
    /\ \E batch_size \in BatchSizes, seed \in HashSeeds :
          Apply([coll |-> collection, run |-> BeginRun(collection, batch_size, seed)])

AssignParent == run.pc = "parent" /\ Apply(StepParent(collection, run))

WalkChain == run.pc = "walk" /\ Apply(StepWalk(collection, run))

StoreChain == run.pc = "chain" /\ Apply(StepChain(collection, run))

LinkRelated == run.pc = "related" /\ Apply(StepRelated(collection, run))

LinkQA == run.pc = "qa" /\ Apply(StepQA(collection, run))

\* the process is stopped between two store updates
Interrupt ==
    /\ run.pc # "idle"
    /\ run' = IdleRun
    /\ lastOp' = IF built = NoGraph /\ collection # corpus0 THEN "interrupted" ELSE lastOp
    /\ UNCHANGED <<collection, dbc, corpus0, built, others>>

DbChainStart ==
    /\ Quiet /\ Settled
    /\ \E policy_id \in PolicyIds \cup {GhostId} :
          dbc' = [pc |-> "walk", chain |-> <<>>, current_id |-> policy_id]
    /\ UNCHANGED <<collection, run, corpus0, built, lastOp, others>>

DbChainWalk ==
    /\ dbc.pc = "walk"
    /\ dbc' = DbWalk(collection, dbc)
    /\ UNCHANGED <<collection, run, corpus0, built, lastOp, others>>

DbChainStore ==
    /\ dbc.pc = "store"
    /\ collection' = DbStore(collection, dbc)
    /\ dbc' = IdleDbc
    /\ built' = NoGraph
    /\ lastOp' = "db_chain"
    /\ UNCHANGED <<run, corpus0, others>>

\* a stored page is crawled again
InsertPolicy ==
    /\ Quiet /\ Settled
    /\ \E i \in DOMAIN collection :
          collection' = insert_policy(collection, PolicyDocument(Extracted(collection[i])))
    /\ built' = NoGraph
    /\ lastOp' = "insert"
    /\ UNCHANGED <<run, dbc, corpus0, others>>

\* the relationship build, stopped and started again at will
Next ==
    \/ StartBuild
    \/ AssignParent
    \/ WalkChain
    \/ StoreChain
    \/ LinkRelated
    \/ LinkQA
    \/ Interrupt

Spec == Init /\ [][Next]_vars

\* the stages that write the store, each run to completion
StoreNext ==
    \/ StartBuild
    \/ AssignParent
    \/ WalkChain
    \/ StoreChain
    \/ LinkRelated
    \/ LinkQA
    \/ DbChainStart
    \/ DbChainWalk
    \/ DbChainStore
    \/ InsertPolicy

StoreSpec == StoreInit /\ [][StoreNext]_vars

----------------------------------------------------------------------------
(* DataQualityValidator.deduplicate_policies *)

MaxPages == 3

MaxRuns == 2

MaxClock == 4

PageIds == 1..MaxPages

PageTitles == {<<"On", "EIT", "TaxPreference", "Notice">>, <<"EIT", "SettlementAnswers">>}

PublishDates == {"2023-01-01", "2024-01-01"}

\* a crawled page as insert_policy receives it
Page(id, title, publish_date) ==
    PolicyDocument([policy_id |-> id, url |-> id, title |-> title,
                    publish_date |-> publish_date, content |-> <<>>,
                    tax_type |-> <<"EIT">>, document_level |-> "L3"])

\* '_id': {'title': '$title', 'publish_date': '$publish_date'}
GroupId(doc) == [title |-> doc.title, publish_date |-> doc.publish_date]

\* 'docs': {'$push': '$policy_id'}, in the order the collection is read
RECURSIVE GroupDocs(_, _)
GroupDocs(coll, id) ==
    IF coll = <<>> THEN <<>>
    ELSE (IF GroupId(Head(coll)) = id THEN <<Head(coll).policy_id>> ELSE <<>>)
            \o GroupDocs(Tail(coll), id)

\* the $group and $match stages: the groups of more than one document
Duplicates(coll) ==
    {g \in {[_id |-> GroupId(coll[i]), docs |-> GroupDocs(coll, GroupId(coll[i]))] :
               i \in DOMAIN coll} :
        Len(g.docs) > 1}

\* collection.delete_one({'policy_id': policy_id})
delete_one(coll, policy_id) ==
    LET hits == {i \in DOMAIN coll : coll[i].policy_id = policy_id}
    IN IF hits = {} THEN coll
       ELSE [i \in 1..(Len(coll) - 1) |->
                IF i < Min(hits) THEN coll[i] ELSE coll[i + 1]]

\* to_remove kept to the second document of the group
ToRemove_SecondOnly(docs) == IF Len(docs) > 1 THEN <<docs[2]>> ELSE <<>>

\* to_remove = docs[1:]
ToRemove(docs) == Tail(docs)

\* `for doc_id in to_remove`: delete and count
RECURSIVE RemoveEach(_, _)
RemoveEach(s, to_remove) ==
    IF to_remove = <<>> THEN s
    ELSE RemoveEach([coll |-> delete_one(s.coll, Head(to_remove)),
                     removed |-> s.removed + 1],
                    Tail(to_remove))

\* `for dup in duplicates`
RECURSIVE RemoveGroups(_, _)
RemoveGroups(s, duplicates) ==
    IF duplicates = {} THEN s
    ELSE LET dup == CHOOSE g \in duplicates : TRUE
         IN RemoveGroups(RemoveEach(s, ToRemove(dup.docs)), duplicates \ {dup})

\* the store the run leaves and the stats it returns
deduplicate_policies(coll) ==
    LET duplicates == Duplicates(coll)
        s == RemoveGroups([coll |-> coll, removed |-> 0], duplicates)
    IN [coll |-> s.coll,
        stats |-> [total |-> Len(coll), url_duplicates |-> 0,
                   title_date_duplicates |-> Cardinality(duplicates),
                   content_duplicates |-> 0, removed |-> s.removed]]

\* datetime.now() at a crawl: later than every crawled_at in the store
Now(coll) ==
    LET times == {coll[i].crawled_at : i \in DOMAIN coll}
    IN IF times = {} THEN 1
       ELSE 1 + CHOOSE t \in times : \A u \in times : u <= t

\* crawled_at: datetime = Field(default_factory=datetime.now)
Crawled(page, now) == SetFields(page, [crawled_at |-> now])

\* a page is crawled and stored, under a new policy_id or a stored one
CrawlPage ==
    /\ Now(collection) <= MaxClock
    /\ \E id \in PageIds, title \in PageTitles, publish_date \in PublishDates :
          collection' = insert_policy(collection,
                                      Crawled(Page(id, title, publish_date),
                                              Now(collection)))
    /\ stats' = <<>>
    /\ lastOp' = "crawl"
    /\ UNCHANGED <<run, dbc, corpus0, built, relationships, workers, input, output,
                   compliance, tasks, jobs>>

\* one run of deduplicate_policies; stats holds what the runs since the last
\* crawl returned
Deduplicate ==
    /\ Len(stats) < MaxRuns
    /\ collection' = deduplicate_policies(collection).coll
    /\ stats' = Append(stats, deduplicate_policies(collection).stats)
    /\ lastOp' = "dedup"
    /\ UNCHANGED <<run, dbc, corpus0, built, relationships, workers, input, output,
                   compliance, tasks, jobs>>

DedupInit == collection = <<>> /\ Rest

DedupNext == CrawlPage \/ Deduplicate

DedupSpec == DedupInit /\ [][DedupNext]_vars

----------------------------------------------------------------------------
(* Relationship updates run side by side *)

NumWorkers == 2

Workers == 1..NumWorkers

IdleWorker ==
    [kind |-> "idle", pc |-> "idle", child_id |-> None, parent_id |-> None,
     frame |-> IdleRun]

\* {'$addToSet': {field: value}} on the document with this policy_id
add_to_set(coll, policy_id, field, value) ==
    LET doc == find_by_id(coll, policy_id)
    IN IF doc.policy_id = None \/ value \in Range(doc[field]) THEN coll
       ELSE update_one(coll, policy_id,
                       [f \in {field} |-> Append(doc[field], value)])

\* relationships_collection.update_one({child_id, parent_id}, {'$set': ...}, upsert=True)
upsert_relationship(rels, child_id, parent_id, relationship_type) ==
    {r \in rels : ~(r.child_id = child_id /\ r.parent_id = parent_id)}
       \cup {[child_id |-> child_id, parent_id |-> parent_id,
              relationship_type |-> relationship_type]}

\* the first documents of the catalogue in any order, none with a parent yet
FreshCorpora ==
    {c \in CatalogueCorpora :
        /\ \A i \in DOMAIN c : c[i].parent_policy_id = None
        /\ {c[i].title : i \in DOMAIN c} = {Catalogue[k].title : k \in PolicyIds}}

WorkerStep(w, frame, coll, rels) ==
    /\ workers' = [workers EXCEPT ![w] = frame]
    /\ collection' = coll
    /\ relationships' = rels
    /\ UNCHANGED <<run, dbc, corpus0, built, stats, lastOp, input, output,
                   compliance, tasks, jobs>>

\* update_policy_relationships(child_id, parent_id) is called
StartUpdate ==
    \E w \in Workers, child_id \in PolicyIds, parent_id \in PolicyIds :
        /\ workers[w].kind = "idle"
        /\ WorkerStep(w, [workers[w] EXCEPT !.kind = "update", !.pc = "set_parent",
                                            !.child_id = child_id,
                                            !.parent_id = parent_id],
                      collection, relationships)

\* its first store operation: the child's parent_policy_id
SetParent ==
    \E w \in Workers :
        /\ workers[w].pc = "set_parent"
        /\ WorkerStep(w, [workers[w] EXCEPT !.pc = "add_cited_by"],
                      update_one(collection, workers[w].child_id,
                                 [parent_policy_id |-> workers[w].parent_id]),
                      relationships)

\* its second: the parent's cited_by_policy_ids
AddCitedBy ==
    \E w \in Workers :
        /\ workers[w].pc = "add_cited_by"
        /\ WorkerStep(w, [workers[w] EXCEPT !.pc = "record"],
                      add_to_set(collection, workers[w].parent_id,
                                 "cited_by_policy_ids", workers[w].child_id),
                      relationships)

\* its third: the record in the relationships collection
RecordRelationship ==
    \E w \in Workers :
        /\ workers[w].pc = "record"
        /\ WorkerStep(w, [workers[w] EXCEPT !.pc = "done"], collection,
                      upsert_relationship(relationships, workers[w].child_id,
                                          workers[w].parent_id, "legislation"))

\* build_all_relationships is called by a worker of its own
StartWorkerBuild ==
    \E w \in Workers, seed \in HashSeeds :
        /\ workers[w].kind = "idle"
        /\ WorkerStep(w, [workers[w] EXCEPT !.kind = "build", !.pc = "run",
                                            !.frame = BeginRun(collection, NumDocs, seed)],
                      collection, relationships)

\* the next store update of that build
WorkerBuildStep ==
    \E w \in Workers :
        /\ workers[w].pc = "run"
        /\ LET s == Step(collection, workers[w].frame)
           IN WorkerStep(w, [workers[w] EXCEPT
                                !.frame = s.run,
                                !.pc = IF s.run.pc = "idle" THEN "done" ELSE "run"],
                         s.coll, relationships)

ConcInit ==
    /\ collection \in FreshCorpora
    /\ run = IdleRun
    /\ dbc = IdleDbc
    /\ corpus0 = collection
    /\ built = NoGraph
    /\ relationships = {}
    /\ workers = [w \in Workers |-> IdleWorker]
    /\ stats = <<>>
    /\ lastOp = "none"
    /\ input = NoCall
    /\ output = NoCall
    /\ compliance = NoCrawler
    /\ tasks = NoTasks
    /\ jobs = NoJobs

ConcNext ==
    \/ StartUpdate
    \/ SetParent
    \/ AddCitedBy
    \/ RecordRelationship
    \/ StartWorkerBuild
    \/ WorkerBuildStep

ConcSpec == ConcInit /\ [][ConcNext]_vars

----------------------------------------------------------------------------
(* DataQualityValidator.check_content_similarity *)

\* Here the body of a page is its text, a sequence of words.
Bodies == {<<>>, <<"tax", "rate">>, <<"tax", "base">>, <<"tax", "rate", "cut">>}

\* the threshold argument, in hundredths
Thresholds == {50, 90}

\* a crawled page with its text
PageWithBody(id, title, publish_date, content) ==
    SetFields(Page(id, title, publish_date), [content |-> content])

\* SequenceMatcher.find_longest_match: the longest block the two texts share,
\* the earliest in text1 and then the earliest in text2; size 0 if none
find_longest_match(text1, text2) ==
    LET blocks == {b \in (DOMAIN text1) \X (DOMAIN text2) \X (1..Len(text1)) :
                      /\ b[1] + b[3] - 1 <= Len(text1)
                      /\ b[2] + b[3] - 1 <= Len(text2)
                      /\ SubSeq(text1, b[1], b[1] + b[3] - 1)
                            = SubSeq(text2, b[2], b[2] + b[3] - 1)}
    IN IF blocks = {} THEN <<1, 1, 0>>
       ELSE CHOOSE b \in blocks :
               \A c \in blocks :
                   \/ c[3] < b[3]
                   \/ c[3] = b[3] /\ b[1] < c[1]
                   \/ c[3] = b[3] /\ b[1] = c[1] /\ b[2] <= c[2]

\* SequenceMatcher.get_matching_blocks, summed: the longest block, then the
\* same to its left and to its right
RECURSIVE Matches(_, _)
Matches(text1, text2) ==
    LET b == find_longest_match(text1, text2)
    IN IF b[3] = 0 THEN 0
       ELSE b[3]
            + Matches(SubSeq(text1, 1, b[1] - 1), SubSeq(text2, 1, b[2] - 1))
            + Matches(SubSeq(text1, b[1] + b[3], Len(text1)),
                      SubSeq(text2, b[2] + b[3], Len(text2)))

\* SequenceMatcher(None, text1, text2).ratio(), in hundredths and as a
\* fraction <<numerator, denominator>>: 2.0 * matches / length, 1.0 if both
\* texts are empty
_calculate_similarity(text1, text2) ==
    IF Len(text1) + Len(text2) = 0 THEN <<100, 1>>
    ELSE <<200 * Matches(text1, text2), Len(text1) + Len(text2)>>

\* similarity > threshold
AtThreshold_Above(similarity, threshold) ==
    similarity[1] > threshold * similarity[2]

\* similarity >= threshold
AtThreshold(similarity, threshold) ==
    similarity[1] >= threshold * similarity[2]

\* `for j in range(i + 1, n)`
RECURSIVE SimilarFrom(_, _, _, _)
SimilarFrom(policies, i, j, threshold) ==
    IF j > Len(policies) THEN <<>>
    ELSE LET p1 == policies[i]
             p2 == policies[j]
             similarity == _calculate_similarity(p1.content, p2.content)
         IN (IF AtThreshold(similarity, threshold)
             THEN <<[policy1_id |-> p1.policy_id, policy2_id |-> p2.policy_id,
                     similarity |-> similarity,
                     title1 |-> p1.title, title2 |-> p2.title]>>
             ELSE <<>>)
            \o SimilarFrom(policies, i, j + 1, threshold)

\* `for i in range(n)`
RECURSIVE SimilarGroups(_, _, _)
SimilarGroups(policies, i, threshold) ==
    IF i > Len(policies) THEN <<>>
    ELSE SimilarFrom(policies, i, i + 1, threshold)
            \o SimilarGroups(policies, i + 1, threshold)

\* the store the call leaves and the list it returns
check_content_similarity(coll, threshold) ==
    [coll |-> coll, similar_groups |-> SimilarGroups(coll, 1, threshold)]

\* the stores of pages with text, each page under its own policy_id
BodyCorpora ==
    UNION {{c \in [1..n -> {Crawled(PageWithBody(id, title, "2024-01-01", content), 1) :
                               id \in PageIds, title \in PageTitles, content \in Bodies}] :
               /\ NoRepeat([i \in 1..n |-> c[i].policy_id])
               /\ \A i \in 1..n : c[i].policy_id <= n}
           : n \in 0..MaxPages}

\* nothing built, nothing counted, nothing called
Unused ==
    /\ run = IdleRun
    /\ dbc = IdleDbc
    /\ corpus0 = collection
    /\ built = NoGraph
    /\ relationships = {}
    /\ workers = <<>>
    /\ stats = <<>>
    /\ lastOp = "none"
    /\ output = NoCall
    /\ compliance = NoCrawler
    /\ tasks = NoTasks
    /\ jobs = NoJobs

SimilarityInit ==
    /\ collection \in BodyCorpora
    /\ Unused
    /\ input \in [threshold : Thresholds]

CheckSimilarity ==
    /\ collection' = check_content_similarity(collection, input.threshold).coll
    /\ output' = [fn |-> "check_content_similarity",
                  similar_groups |->
                      check_content_similarity(collection, input.threshold).similar_groups]
    /\ lastOp' = "similarity"
    /\ UNCHANGED <<run, dbc, corpus0, built, relationships, workers, stats, input,
                   compliance, tasks, jobs>>

SimilarityNext == CheckSimilarity \/ Deduplicate

SimilaritySpec == SimilarityInit /\ [][SimilarityNext]_vars

----------------------------------------------------------------------------
(* The classifiers: FieldExtractor.determine_document_level of the crawler *)
(* and determine_policy_level of the backend                               *)

MaxTitleWords == 2

MaxBodyWords == 1

\* The words a title or a body is made of.  Each stands for the Chinese text
\* the classifiers search for.
Words ==
    {"PRC",              \* the name of the state that opens the title of a law
     "TaxCollectionLaw", "EITLaw", "VATLaw", "IITLaw",
     "Regulation", "ImplRegulation", "Treaty", "Government", "AvoidDoubleTax",
     "DirectorOrder", "MinistryOrder", "SATOrder",
     "AdminMeasures", "ImplMeasures", "ImplRules", "OpGuide", "ExecCaliber",
     "Interpretation", "Illustrated", "QA", "HotTopic", "HotIssues", "Answers",
     "PressAnswers",
     "StateCouncil", "NPC", "NPCShort", "SATAnnouncement",
     "FiscalNumber",     \* a document number as the ministries write it
     "FiscalBracketRun"} \* the same with all three opening brackets in a row

\* the keys a word contains besides itself: the measures and the laws end in
\* the character for 'law', an implementing regulation is a regulation, hot
\* issues are a hot topic
Parts(word) ==
    {word} \cup
    (IF word \in {"TaxCollectionLaw", "EITLaw", "VATLaw", "IITLaw",
                  "AdminMeasures", "ImplMeasures"}
     THEN {"LawChar"} ELSE {}) \cup
    (IF word = "ImplRegulation" THEN {"Regulation"} ELSE {}) \cup
    (IF word = "HotIssues" THEN {"HotTopic"} ELSE {})

\* `key in text` for a key within one word
Has(key, text) == \E i \in DOMAIN text : key \in Parts(text[i])

\* re.search(r'<PRC>.*?<law character>', title)
NationalLawPattern(title) ==
    \E i, j \in DOMAIN title : i < j /\ title[i] = "PRC" /\ "LawChar" \in Parts(title[j])

\* re.search of the fiscal document number: the pattern asks for the three
\* opening brackets one after the other
FiscalPattern(combined) == Has("FiscalBracketRun", combined)

\* the default of the crawler's classifier, at level L4
DefaultRule_L4 == <<"L4", "NormativeDocument">>

\* `return 'L3', <normative document>`
DefaultRule == <<"L3", "NormativeDocument">>

determine_document_level(title, content) ==
    LET combined == title \o <<" ">> \o content
    IN IF NationalLawPattern(title) THEN <<"L1", "Law">>
       ELSE IF Has("Regulation", title) /\ Has("StateCouncil", combined)
            THEN <<"L1", "AdministrativeRegulation">>
       ELSE IF Has("Treaty", title)
               /\ \E k \in {"Government", "AvoidDoubleTax"} : Has(k, title)
            THEN <<"L1", "Treaty">>
       ELSE IF FiscalPattern(combined) THEN <<"L2", "FiscalDocument">>
       ELSE IF Has("SATAnnouncement", combined) THEN <<"L2", "Announcement">>
       ELSE IF Has("DirectorOrder", title) \/ Has("MinistryOrder", title)
            THEN <<"L2", "DirectorOrder">>
       ELSE IF Has("AdminMeasures", title) \/ Has("ImplMeasures", title)
            THEN <<"L3", "NormativeDocument">>
       ELSE IF Has("ExecCaliber", combined) \/ Has("OpGuide", title)
            THEN <<"L3", "ExecutionCaliber">>
       ELSE IF Has("Interpretation", title) \/ Has("Illustrated", title)
            THEN <<"L4", "OfficialInterpretation">>
       ELSE IF Has("QA", title) \/ Has("HotTopic", title) \/ Has("Answers", title)
            THEN <<"L4", "HotQA">>
       ELSE DefaultRule

\* type_mapping.get(type_str, DocumentType.OTHER)
_get_document_type(type_str) ==
    CASE type_str = "Law" -> "LAW"
      [] type_str = "AdministrativeRegulation" -> "ADMIN_REGULATION"
      [] type_str = "Treaty" -> "TREATY"
      [] type_str = "FiscalDocument" -> "FISCAL_DOC"
      [] type_str = "Announcement" -> "ANNOUNCEMENT"
      [] type_str = "DirectorOrder" -> "DIRECTOR_ORDER"
      [] type_str = "MinistryOfFinanceDocument" -> "MOF_DOC"
      [] type_str = "NormativeDocument" -> "NORMATIVE_DOC"
      [] type_str = "ExecutionCaliber" -> "IMPLEMENTATION_RULE"
      [] type_str = "OfficialInterpretation" -> "INTERPRETATION"
      [] type_str = "HotQA" -> "QA"
      [] OTHER -> "OTHER"

\* the three laws the backend's classifier names, each after the name of the
\* state
NamedLaws == {<<"PRC", "VATLaw">>, <<"PRC", "IITLaw">>, <<"PRC", "EITLaw">>}

\* the backend's classifier
determine_policy_level(doc) ==
    LET title == doc.title
        source == doc.source
        content == doc.content
    IN IF /\ \E law \in NamedLaws : Contains(law, title)
          /\ Has("NPC", content) \/ Has("NPCShort", content)
       THEN "LAW"
       ELSE IF Has("ImplRegulation", title) /\ Has("StateCouncil", content)
            THEN "REGULATION"
       ELSE IF /\ Has("AdminMeasures", title) \/ Has("ImplRules", title)
               /\ Has("MinistryOrder", content) \/ Has("SATOrder", content)
            THEN "RULE"
       ELSE IF Has("Interpretation", title) \/ Has("PressAnswers", title)
            THEN "INTERPRETATION"
       ELSE IF Has("12366", source) \/ Has("HotIssues", title)
            THEN "GUIDANCE"
       ELSE "NORMATIVE"

\* the texts of up to n words, no word twice
RECURSIVE Texts(_)
Texts(n) ==
    IF n = 0 THEN {<<>>}
    ELSE Texts(n - 1) \cup
         {Append(t, w) : <<t, w>> \in
             {p \in Texts(n - 1) \X Words : Len(p[1]) = n - 1 /\ p[2] \notin Range(p[1])}}

Sources == {<<"SAT">>, <<"12366">>}

ClassifyInit ==
    /\ collection = <<>>
    /\ Unused
    /\ input \in [title : Texts(MaxTitleWords), content : Texts(MaxBodyWords),
                  source : Sources]

\* parse_policy_detail: the level and type of a crawled page, and the
\* DocumentType save_policy stores for the type
Classify ==
    /\ output' = LET r == determine_document_level(input.title, input.content)
                 IN [fn |-> "determine_document_level", level |-> r[1],
                     doc_type |-> r[2], document_type |-> _get_document_type(r[2])]
    /\ UNCHANGED <<collection, run, dbc, corpus0, built, relationships, workers,
                   stats, lastOp, input,
                   compliance, tasks, jobs>>

ClassifyBackend ==
    /\ output' = [fn |-> "determine_policy_level",
                  policy_level |-> determine_policy_level(input)]
    /\ UNCHANGED <<collection, run, dbc, corpus0, built, relationships, workers,
                   stats, lastOp, input,
                   compliance, tasks, jobs>>

ClassifyNext == Classify \/ ClassifyBackend

ClassifySpec == ClassifyInit /\ [][ClassifyNext]_vars

----------------------------------------------------------------------------
(* Quality: the scorers, the grades and DataQualityValidator *)

\* A text is given by its number of characters and the words searched for
\* that occur in it.  A field that holds one of a few names (a level, a
\* status) is a string, '' if blank; an id or a date is a number, None if
\* missing.
Str(length, words) == [len |-> length, words |-> words]

EmptyStr == Str(0, {})

\* bool(text): '' is false
Filled(text) == text.len > 0

\* doc.get(field, default)
Get(doc, field, default) == IF field \in DOMAIN doc THEN doc[field] ELSE default

\* the score from which the grade is A, and the next two
GradeA == 90

GradeB == 75

GradeC == 60

MaxScore == 100

Scores == 0..MaxScore

\* the grade is A above 90 only
determine_quality_level_Above(score) ==
    IF score > GradeA THEN "A"
    ELSE IF score >= GradeB THEN "B"
    ELSE IF score >= GradeC THEN "C"
    ELSE "D"

\* FieldExtractor.determine_quality_level
determine_quality_level(score) ==
    IF score >= GradeA THEN "A"
    ELSE IF score >= GradeB THEN "B"
    ELSE IF score >= GradeC THEN "C"
    ELSE "D"

\* the backend's determine_quality_level: five numbered levels
policy_schema_determine_quality_level(score) ==
    IF score >= 90 THEN 5
    ELSE IF score >= 75 THEN 4
    ELSE IF score >= 60 THEN 3
    ELSE IF score >= 40 THEN 2
    ELSE 1

\* get_quality_report: the grade of the overall score
ReportQualityLevel(overall_score) ==
    IF overall_score >= 90 THEN "A"
    ELSE IF overall_score >= 75 THEN "B"
    ELSE IF overall_score >= 60 THEN "C"
    ELSE "D"

\* update_many({'validity_status': ''}, {'$set': {'validity_status': <valid>}})
CleanBlankFields(coll) ==
    [i \in DOMAIN coll |->
        IF Get(coll[i], "validity_status", "absent") = ""
        THEN SetFields(coll[i], [validity_status |-> "valid"])
        ELSE coll[i]]

\* the level fix_common_issues gives a document without quality_level
DefaultQualityLevel(policy) ==
    LET quality_score == Get(policy, "quality_score", 0)
    IN IF quality_score >= 90 THEN "A"
       ELSE IF quality_score >= 75 THEN "B"
       ELSE IF quality_score >= 60 THEN "C"
       ELSE "D"

\* DataQualityValidator.fix_common_issues: the store it leaves and its stats
fix_common_issues(coll) ==
    LET cleaned == CleanBlankFields(coll)
        policies == {i \in DOMAIN cleaned : "quality_level" \notin DOMAIN cleaned[i]}
    IN [coll |-> [i \in DOMAIN cleaned |->
                    IF i \in policies
                    THEN SetFields(cleaned[i],
                                   [quality_level |-> DefaultQualityLevel(cleaned[i])])
                    ELSE cleaned[i]],
        stats |-> [cleaned_blank_fields |->
                       Cardinality({i \in DOMAIN coll : cleaned[i] # coll[i]}),
                   standardized_dates |-> 0,
                   added_defaults |-> Cardinality(policies)]]

\* a stored document with a score and no grade yet, and one with neither
Ungraded(score) ==
    {<<[policy_id |-> 1, validity_status |-> "", quality_score |-> score]>>,
     <<[policy_id |-> 1, validity_status |-> "valid"]>>}

GradeInit ==
    /\ input \in [kind : {"score"}, score : Scores]
    /\ collection \in Ungraded(input.score)
    /\ Unused

\* a score is graded by the crawler, by the quality report and by the backend
Grade ==
    /\ input.kind = "score"
    /\ output' = [fn |-> "determine_quality_level",
                  quality_level |-> determine_quality_level(input.score),
                  report_level |-> ReportQualityLevel(input.score),
                  backend_level |-> policy_schema_determine_quality_level(input.score)]
    /\ UNCHANGED <<collection, run, dbc, corpus0, built, relationships, workers,
                   stats, lastOp, input,
                   compliance, tasks, jobs>>

FixCommonIssues ==
    /\ input.kind = "score"
    /\ lastOp # "fix"
    /\ collection' = fix_common_issues(collection).coll
    /\ stats' = <<fix_common_issues(collection).stats>>
    /\ lastOp' = "fix"
    /\ UNCHANGED <<run, dbc, corpus0, built, relationships, workers, input, output,
                   compliance, tasks, jobs>>

GradeNext == Grade \/ FixCommonIssues

GradeSpec == GradeInit /\ [][GradeNext]_vars

\* the content lengths on both sides of every step of the scorers
ContentLengths == {0, 100, 101, 200, 201, 500, 501, 1000, 1001, 2000, 2001}

Levels == {"L1", "L2", "L3", "L4"}

\* min(score, 100)
Capped(score) == IF score < MaxScore THEN score ELSE MaxScore

\* FieldExtractor.calculate_quality_score
calculate_quality_score(doc) ==
    LET content_length == Get(doc, "content", EmptyStr).len
        required == (IF Filled(doc.title) /\ doc.title.len > 10 THEN 10 ELSE 0)
                    + (IF Filled(doc.source) THEN 10 ELSE 0)
                    + (IF doc.url # None THEN 5 ELSE 0)
                    + (IF Filled(doc.document_number) THEN 10 ELSE 0)
                    + (IF doc.publish_date # None THEN 5 ELSE 0)
        content == (IF content_length > 100 THEN 5 ELSE 0)
                   + (IF content_length > 500 THEN 10 ELSE 0)
                   + (IF content_length > 1000 THEN 10 ELSE 0)
                   + (IF content_length > 2000 THEN 5 ELSE 0)
        level == IF doc.document_level = "" THEN 0
                 ELSE IF doc.document_level = "L1" THEN 20
                 ELSE IF doc.document_level = "L2" THEN 15
                 ELSE IF doc.document_level = "L3" THEN 10
                 ELSE 5
        relationship == (IF doc.parent_policy_id # None THEN 5 ELSE 0)
                        + (IF doc.legislation_chain # <<>> THEN 5 ELSE 0)
    IN Capped(required + content + level + relationship)

\* the backend's calculate_quality_score
policy_schema_calculate_quality_score(doc) ==
    LET content_len == Get(doc, "content", EmptyStr).len
        fields == (IF Filled(doc.document_number) THEN 10 ELSE 0)
                  + (IF doc.publish_date # None THEN 10 ELSE 0)
                  + (IF Filled(doc.title) /\ doc.title.len > 20 THEN 10 ELSE 0)
        content == (IF content_len > 200 THEN 5 ELSE 0)
                   + (IF content_len > 500 THEN 10 ELSE 0)
                   + (IF content_len > 1000 THEN 10 ELSE 0)
                   + (IF content_len > 2000 THEN 5 ELSE 0)
                   + (IF "Interpretation" \in doc.title.words THEN 10 ELSE 0)
        timeliness == (IF doc.effective_date # None THEN 10 ELSE 0)
                      + (IF doc.expiry_date # None THEN 10 ELSE 0)
        structure == (IF doc.tax_type # <<>> /\ doc.tax_type # <<"Other">> THEN 5 ELSE 0)
                     + (IF Filled(doc.document_number) THEN 5 ELSE 0)
    IN Capped(fields + content + timeliness + structure)

\* policy_data as parse_policy_detail builds it, for what the scorer reads
PolicyData ==
    [title : {EmptyStr, Str(10, {}), Str(11, {})},
     source : {EmptyStr, Str(6, {})},
     url : {None, 1},
     document_number : {EmptyStr, Str(8, {})},
     publish_date : {None, 1},
     content : {Str(n, {}) : n \in ContentLengths},
     document_level : {""} \cup Levels,
     parent_policy_id : {None, 1},
     legislation_chain : {<<>>, <<1, 2>>}]

\* an extracted document of the backend, for what its scorer reads
BackendData ==
    [title : {EmptyStr, Str(20, {}), Str(21, {}), Str(21, {"Interpretation"})},
     document_number : {EmptyStr, Str(8, {})},
     publish_date : {None, 1},
     content : {Str(n, {}) : n \in ContentLengths},
     effective_date : {None, 1},
     expiry_date : {None, 2},
     tax_type : {<<>>, <<"Other">>, <<"EIT">>}]

ScoreInit ==
    /\ input \in [kind : {"policy_data"}, doc : PolicyData]
                    \cup [kind : {"backend"}, doc : BackendData]
    /\ collection = <<>>
    /\ Unused

\* parse_policy_detail: the score of the page and its grade
Score ==
    /\ input.kind = "policy_data"
    /\ output' = LET quality_score == calculate_quality_score(input.doc)
                 IN [fn |-> "calculate_quality_score",
                     score |-> quality_score,
                     quality_level |-> determine_quality_level(quality_score)]
    /\ UNCHANGED <<collection, run, dbc, corpus0, built, relationships, workers,
                   stats, lastOp, input,
                   compliance, tasks, jobs>>

\* extract_fields of the backend: the score of the document
ScoreBackend ==
    /\ input.kind = "backend"
    /\ output' = [fn |-> "policy_schema.calculate_quality_score",
                  score |-> policy_schema_calculate_quality_score(input.doc)]
    /\ UNCHANGED <<collection, run, dbc, corpus0, built, relationships, workers,
                   stats, lastOp, input,
                   compliance, tasks, jobs>>

ScoreNext == Score \/ ScoreBackend

ScoreSpec == ScoreInit /\ [][ScoreNext]_vars

\* the score from which validate_policy calls a document valid
ValidScore == 60

\* The two connectors a DataQualityValidator is built on: the orchestrator
\* passes a MongoDBConnectorV2, the command line (cmd_validate) a
\* MongoDBConnector, which has find_policy and no find_by_id.
Connectors == {"MongoDBConnectorV2", "MongoDBConnector"}

\* self.db.find_by_id(parent_id): the document, NoDoc for None, or the
\* AttributeError of a connector without the method
db_find_by_id(db, policy_id) ==
    IF db.connector = "MongoDBConnectorV2"
    THEN [raised |-> "", doc |-> find_by_id(db.collection, policy_id)]
    ELSE [raised |-> "AttributeError", doc |-> NoDoc]

\* issues.append(issue); score += points
Issue_Adds(s, kind, points) ==
    [s EXCEPT !.issues = Append(@, kind), !.score = @ + points]

\* issues.append(issue); score -= points
Issue(s, kind, points) ==
    [s EXCEPT !.issues = Append(@, kind), !.score = @ - points]

\* warnings.append(warning); score -= points
Warning(s, kind, points) ==
    [s EXCEPT !.warnings = Append(@, kind), !.score = @ - points]

\* `not policy.get(field)` for each of required_fields
Blank(policy, field) ==
    CASE field \in {"title", "source"} -> ~Filled(policy[field])
      [] field \in {"policy_id", "url"} -> policy[field] = None
      [] OTHER -> policy[field] = ""

required_fields ==
    <<"policy_id", "title", "source", "url", "document_level", "document_type",
      "tax_category">>

\* `for field, name in required_fields.items()`
RECURSIVE CheckRequired(_, _, _)
CheckRequired(s, policy, fields) ==
    IF fields = <<>> THEN s
    ELSE CheckRequired(IF Blank(policy, Head(fields))
                       THEN Issue(s, "MissingRequiredField", 5) ELSE s,
                       policy, Tail(fields))

CheckTitle(s, policy) ==
    IF policy.title.len < 10 THEN Issue(s, "TitleTooShort", 5) ELSE s

CheckLevel(s, policy) ==
    LET s1 == IF /\ policy.document_level = "L4"
                 /\ policy.qa_reference_ids = <<>>
                 /\ policy.parent_policy_id = None
              THEN Issue(s, "L4NotLinked", 15) ELSE s
        s2 == IF policy.document_level = "L2" /\ policy.parent_policy_id = None
              THEN Warning(s1, "L2WithoutParent", 5) ELSE s1
    IN IF "TaxBureau" \in policy.source.words /\ policy.region = "National"
       THEN Warning(s2, "RegionNotTagged", 3) ELSE s2

CheckChain(s, policy) ==
    IF policy.document_level \in {"L2", "L3"} /\ policy.legislation_chain = <<>>
    THEN Warning(s, "NoLegislationChain", 10) ELSE s

\* the parent is looked up only if the field is set
CheckParent(s, db, policy) ==
    IF policy.parent_policy_id = None THEN s
    ELSE LET parent == db_find_by_id(db, policy.parent_policy_id)
         IN IF parent.raised # "" THEN [s EXCEPT !.raised = parent.raised]
            ELSE IF parent.doc = NoDoc THEN Issue(s, "ParentMissing", 10)
            ELSE s

CheckDates(s, policy) ==
    LET s1 == IF policy.validity_status = ""
              THEN Warning(s, "NoValidityStatus", 5) ELSE s
        s2 == IF /\ policy.publish_date # None /\ policy.effective_date # None
                 /\ policy.effective_date < policy.publish_date
              THEN Issue(s1, "EffectiveDateBeforePublishDate", 5) ELSE s1
    IN IF /\ policy.effective_date # None /\ policy.expiry_date # None
          /\ policy.expiry_date < policy.effective_date
       THEN Issue(s2, "ExpiryDateBeforeEffectiveDate", 5) ELSE s2

CheckContent(s, policy) ==
    IF policy.content.len < 100 THEN Issue(s, "ContentTooShort", 10)
    ELSE IF policy.content.len < 500 THEN Warning(s, "ContentShort", 5)
    ELSE s

\* 'valid': score >= 60
Valid(s) == s.score >= ValidScore

\* DataQualityValidator.validate_policy: what it returns, or the exception
\* it is left by
validate_policy(db, policy) ==
    LET s0 == [score |-> MaxScore, issues |-> <<>>, warnings |-> <<>>, raised |-> ""]
        s1 == CheckTitle(CheckRequired(s0, policy, required_fields), policy)
        s2 == CheckChain(CheckLevel(s1, policy), policy)
        s3 == CheckParent(s2, db, policy)
        s4 == CheckContent(CheckDates(s3, policy), policy)
    IN IF s3.raised # "" THEN [raised |-> s3.raised]
       ELSE [raised |-> "", valid |-> Valid(s4),
             score |-> IF s4.score > 0 THEN s4.score ELSE 0,
             issues |-> s4.issues, warnings |-> s4.warnings]

\* the type validate_all counts an issue under, by the text it contains
IssueType(issue) ==
    CASE issue = "MissingRequiredField" -> "missing_fields"
      [] issue = "ParentMissing" -> "broken_relationships"
      [] issue \in {"EffectiveDateBeforePublishDate", "ExpiryDateBeforeEffectiveDate"}
            -> "invalid_dates"
      [] issue = "ContentTooShort" -> "short_content"
      [] OTHER -> "none"

IssueTypes == {"missing_fields", "broken_relationships", "invalid_dates", "short_content"}

\* `for issue in validation['issues']`
RECURSIVE CountIssues(_, _)
CountIssues(issues_by_type, issues) ==
    IF issues = <<>> THEN issues_by_type
    ELSE CountIssues([t \in IssueTypes |->
                         issues_by_type[t] + (IF IssueType(Head(issues)) = t THEN 1 ELSE 0)],
                     Tail(issues))

\* `for policy in policies`
RECURSIVE ValidateEach(_, _, _)
ValidateEach(s, db, policies) ==
    IF policies = <<>> \/ s.raised # "" THEN s
    ELSE LET policy == Head(policies)
             validation == validate_policy(db, policy)
         IN IF validation.raised # "" THEN [s EXCEPT !.raised = validation.raised]
            ELSE ValidateEach(
                    [s EXCEPT
                       !.low_quality_policies =
                           IF validation.valid THEN @
                           ELSE Append(@, [policy_id |-> policy.policy_id,
                                           score |-> validation.score,
                                           issues |-> validation.issues]),
                       !.issues_by_type = CountIssues(@, validation.issues)],
                    db, Tail(policies))

\* DataQualityValidator.validate_all: the report, or the exception
validate_all(db) ==
    LET total == Len(db.collection)
        s == ValidateEach([low_quality_policies |-> <<>>,
                           issues_by_type |-> [t \in IssueTypes |-> 0],
                           raised |-> ""],
                          db, db.collection)
        valid_count == total - Len(s.low_quality_policies)
    IN IF s.raised # "" THEN [raised |-> s.raised]
       ELSE [raised |-> "", total_policies |-> total, valid_policies |-> valid_count,
             invalid_policies |-> Len(s.low_quality_policies),
             quality_score |-> IF total > 0 THEN <<valid_count * 100, total>> ELSE <<0, 1>>,
             issues_by_type |-> s.issues_by_type,
             low_quality_sample |-> Take(s.low_quality_policies, 20)]

\* publish, effective and expiry date: missing, in order, or out of order
DateTriples ==
    {<<None, None, None>>, <<3, None, None>>, <<3, 3, None>>, <<3, 2, None>>,
     <<None, 2, 1>>, <<3, 2, 1>>, <<3, 3, 2>>}

\* the source and region of a page: none, the national administration, a
\* local bureau under the default region and under its own
SourceRegions ==
    {<<EmptyStr, "National">>, <<Str(6, {}), "National">>,
     <<Str(6, {"TaxBureau"}), "National">>, <<Str(6, {"TaxBureau"}), "Beijing">>}

\* the law in the store that a parent_policy_id of 1 names
StoredLaw ==
    [policy_id |-> 1, title |-> Str(12, {}), source |-> Str(6, {}), url |-> 1,
     document_level |-> "L1", document_type |-> "Law", tax_category |-> "Entity",
     region |-> "National", qa_reference_ids |-> <<>>, parent_policy_id |-> None,
     legislation_chain |-> <<>>, validity_status |-> "valid",
     publish_date |-> 1, effective_date |-> 1, expiry_date |-> None,
     content |-> Str(500, {})]

\* the documents under validation; the type comes with the level, from the
\* same classifier
Policies ==
    {[policy_id |-> 2, title |-> title, source |-> sr[1], url |-> url,
      document_level |-> level,
      document_type |-> IF level = "" THEN "" ELSE "Type",
      tax_category |-> tax_category, region |-> sr[2],
      qa_reference_ids |-> qa, parent_policy_id |-> parent,
      legislation_chain |-> chain, validity_status |-> validity,
      publish_date |-> d[1], effective_date |-> d[2], expiry_date |-> d[3],
      content |-> content] :
        title \in {EmptyStr, Str(9, {}), Str(10, {})},
        sr \in SourceRegions, url \in {None, 2},
        level \in {""} \cup Levels, tax_category \in {"", "Entity"},
        qa \in {<<>>, <<1>>}, parent \in {None, 1, GhostId},
        chain \in {<<>>, <<1, 2>>}, validity \in {"", "valid"},
        d \in DateTriples,
        content \in {Str(99, {}), Str(100, {}), Str(500, {})}}

ValidateInit ==
    /\ input \in [kind : {"policy"}, policy : Policies]
    /\ collection = <<StoredLaw, input.policy>>
    /\ Unused

\* validate_policy on a stored document, by a validator on either connector
Validate ==
    /\ input.kind = "policy"
    /\ \E connector \in Connectors :
          output' = [fn |-> "validate_policy", connector |-> connector,
                     result |-> validate_policy([connector |-> connector,
                                                 collection |-> collection],
                                                input.policy)]
    /\ UNCHANGED <<collection, run, dbc, corpus0, built, relationships, workers,
                   stats, lastOp, input,
                   compliance, tasks, jobs>>

\* validate_all over the store
ValidateAll ==
    /\ input.kind = "policy"
    /\ \E connector \in Connectors :
          output' = [fn |-> "validate_all", connector |-> connector,
                     result |-> validate_all([connector |-> connector,
                                              collection |-> collection])]
    /\ UNCHANGED <<collection, run, dbc, corpus0, built, relationships, workers,
                   stats, lastOp, input,
                   compliance, tasks, jobs>>

ValidateNext == Validate \/ ValidateAll

ValidateSpec == ValidateInit /\ [][ValidateNext]_vars

\* scoring and validation together
QualityInit == ScoreInit \/ ValidateInit

QualityNext == Score \/ ScoreBackend \/ Validate \/ ValidateAll

QualitySpec == QualityInit /\ [][QualityNext]_vars

----------------------------------------------------------------------------
(* BaseCrawler.process_policy: one page made into policy_data *)

\* A page text is its words, in order, and its number of characters.
Text(words, length) == [text |-> words, len |-> length]

NoText == Text(<<>>, 0)

\* the dates the content states: written on a day, on the 30th of February,
\* in force from a day, a period, a period that ends on the 31st of November
DateWords == {"WrittenOn", "WrittenOn30Feb", "InForceFrom", "Period", "PeriodTo31Nov"}

\* datetime(year, month, day) of what a date word states; None stands for the
\* ValueError of a day the month does not have, which extract_dates catches
DateOf(word, field) ==
    CASE word = "WrittenOn" /\ field = "publish_date" -> 1
      [] word = "InForceFrom" /\ field = "effective_date" -> 2
      [] word \in {"Period", "PeriodTo31Nov"} /\ field = "effective_date" -> 3
      [] word = "Period" /\ field = "expiry_date" -> 4
      [] OTHER -> None

\* the date patterns in the order of DATE_PATTERNS, each with what it sets
DatePatterns == <<"WrittenOn", "WrittenOn30Feb", "InForceFrom", "Period", "PeriodTo31Nov">>

\* FieldExtractor.extract_dates: a later pattern overwrites an earlier one, a
\* date that raises ValueError leaves the field as it was
RECURSIVE ExtractDatesFrom(_, _, _)
ExtractDatesFrom(text, k, result) ==
    IF k > Len(DatePatterns) THEN result
    ELSE LET word == DatePatterns[k]
             set(field) == IF word \in Range(text) /\ DateOf(word, field) # None
                           THEN DateOf(word, field) ELSE result[field]
         IN ExtractDatesFrom(text, k + 1,
                             [publish_date |-> set("publish_date"),
                              effective_date |-> set("effective_date"),
                              expiry_date |-> set("expiry_date")])

extract_dates(text) ==
    ExtractDatesFrom(text, 1, [publish_date |-> None, effective_date |-> None,
                               expiry_date |-> None])

\* FieldExtractor.extract_document_number: of the numbers a page carries only
\* the announcement number is matched by a pattern
extract_document_number(content) ==
    IF content.len = 0 THEN EmptyStr
    ELSE IF "AnnouncementNumber" \in Range(content.text) THEN Str(12, {"AnnouncementNumber"})
    ELSE EmptyStr

\* `a or b` of two texts, None and '' alike being false
OrText(a, b) == IF Filled(a) THEN a ELSE b

\* `a or b` of two dates
OrDate(a, b) == IF a # None THEN a ELSE b

\* extra_data: not given (the default None), an empty dict, a dict with a region
ExtraData == {"None", "empty", "region"}

\* process_policy of a page (title, content, metadata) at url
process_policy(url, page_data, extra_data) ==
    LET title == page_data.title
        content == page_data.content
        metadata == page_data.metadata
        document_number == OrText(extract_document_number(content),
                                  metadata.document_number)
        dates == extract_dates(content.text)
        level == determine_document_level(title.text, content.text)
        policy_data ==
            [title |-> Str(title.len, Range(title.text)),
             source |-> Str(3, {"SAT"}),
             url |-> url,
             document_number |-> document_number,
             publish_date |-> OrDate(dates.publish_date, metadata.publish_date),
             effective_date |-> dates.effective_date,
             expiry_date |-> dates.expiry_date,
             document_level |-> level[1],
             document_type |-> level[2],
             region |-> IF extra_data = "region" THEN "Beijing" ELSE "National",
             content |-> Str(content.len, Range(content.text)),
             parent_policy_id |-> None,
             legislation_chain |-> <<>>]
        quality_score == calculate_quality_score(policy_data)
    IN IF title.len = 0 \/ content.len = 0
       THEN [fn |-> "process_policy", returned |-> "None"]
       ELSE IF extra_data = "None"
       THEN [fn |-> "process_policy", returned |-> "AttributeError"]
       ELSE [fn |-> "process_policy", returned |-> "policy_data",
             policy_data |-> policy_data,
             quality_score |-> quality_score,
             quality_level |-> determine_quality_level(quality_score)]

\* the titles and the contents of the pages
PageTitleTexts ==
    {NoText, Text(<<"Notice">>, 4), Text(<<"PRC", "EITLaw">>, 12)}

PageContents ==
    {NoText, Text(<<"Noise">>, 5), Text(<<"Noise">>, 150)}
    \cup {Text(<<w>>, 30) : w \in DateWords \cup {"AnnouncementNumber", "FiscalNumber"}}
    \cup {Text(<<"WrittenOn", "Period">>, 600), Text(<<"Period", "InForceFrom">>, 60),
          Text(<<"WrittenOn30Feb", "PeriodTo31Nov">>, 60)}

PageMetadata ==
    [document_number : {EmptyStr, Str(8, {})}, publish_date : {None, 5}]

ProcessInit ==
    /\ input \in [url : {1}, title : PageTitleTexts, content : PageContents,
                  metadata : PageMetadata, extra_data : ExtraData]
    /\ collection = <<>>
    /\ Unused

\* crawl_detail_page and the callers that pass extra_data
ProcessPolicy ==
    /\ output = NoCall
    /\ output' = process_policy(input.url, input, input.extra_data)
    /\ UNCHANGED <<collection, run, dbc, corpus0, built, relationships, workers,
                   stats, lastOp, input,
                   compliance, tasks, jobs>>

ProcessNext == ProcessPolicy

ProcessSpec == ProcessInit /\ [][ProcessNext]_vars

----------------------------------------------------------------------------
(* The relationship build over corpora in which no document has a parent *)

\* a notice on carrying out the tax collection law: its title holds the name
\* of the law, its level is that of a normative document
TaxCollectionNotice ==
    [title |-> <<"On", "TaxCollectionLaw", "Notice">>, content |-> <<>>,
     tax_type |-> <<"Procedure">>, document_level |-> "L3"]

Library == Catalogue \o <<TaxCollectionNotice>>

\* any documents of the library in any order, none with a parent
ParentlessCorpora ==
    {[i \in PolicyIds |-> Doc(i, Library[k[i]], None)] :
        k \in {f \in [PolicyIds -> DOMAIN Library] :
                  \A i, j \in PolicyIds : f[i] = f[j] => i = j}}

HierarchyInit == collection \in ParentlessCorpora /\ Rest

HierarchySpec == HierarchyInit /\ [][Next]_vars

----------------------------------------------------------------------------
(* ComplianceChecker and BaseCrawler._make_request *)

MaxRequests == 3

\* the hosts asked: a tax authority's and one outside the government's domains
Sites == {"www.chinatax.gov.cn", "www.example.com"}

Paths == {"/policy", "/admin"}

Urls == [site : Sites, path : Paths]

\* what reading a site's robots.txt gives: an exception, or the paths its
\* rules disallow for every user agent
RobotsFiles == {[loaded |-> FALSE, disallow |-> {}]}
               \cup [loaded : {TRUE}, disallow : SUBSET Paths]

\* any(domain in parsed.netloc for domain in allowed_domains)
is_public_government_site(url) == url.site \in {"www.chinatax.gov.cn"}

\* the cache after `if base_url not in self.robots_cache`: the parser that
\* read the file, or None for a file that could not be read
CacheRobots(cache, site, files) ==
    IF site \in DOMAIN cache THEN cache
    ELSE [s \in DOMAIN cache \cup {site} |-> IF s = site THEN files[site] ELSE cache[s]]

\* RobotFileParser.can_fetch
rp_can_fetch(rp, url) == url.path \notin rp.disallow

\* ComplianceChecker.can_fetch on the cache as CacheRobots left it
can_fetch(cache, url) ==
    LET rp == cache[url.site]
        allowed == rp_can_fetch(rp, url)
    IN IF ~rp.loaded THEN TRUE
       ELSE IF ~allowed /\ is_public_government_site(url) THEN TRUE
       ELSE allowed

\* check_rate_limit: the times kept for the domain after the call, those of
\* the last minute and the one of this request; it returns True always
check_rate_limit(history, site) ==
    {[s \in Sites |-> IF s = site THEN kept + 1 ELSE history[s]] :
        kept \in 0..history[site]}

\* ComplianceChecker.check_compliance: the answer and the checker after it
check_compliance(checker, url, files) ==
    LET cache == CacheRobots(checker.robots_cache, url.site, files)
    IN IF ~is_public_government_site(url)
       THEN {[allowed |-> FALSE, reason |-> "not a government site", checker |-> checker]}
       ELSE IF ~can_fetch(cache, url)
       THEN {[allowed |-> FALSE, reason |-> "robots.txt",
              checker |-> [checker EXCEPT !.robots_cache = cache]]}
       ELSE {[allowed |-> TRUE, reason |-> "passed",
              checker |-> [checker EXCEPT !.robots_cache = cache,
                                          !.request_history = h]] :
                h \in check_rate_limit(checker.request_history, url.site)}

NewCrawler ==
    [robots_cache |-> <<>>, request_history |-> [s \in Sites |-> 0], sent |-> {}]

ComplianceInit ==
    /\ input \in [robots : [Sites -> RobotsFiles]]
    /\ collection = <<>>
    /\ run = IdleRun
    /\ dbc = IdleDbc
    /\ corpus0 = collection
    /\ built = NoGraph
    /\ relationships = {}
    /\ workers = <<>>
    /\ stats = <<>>
    /\ lastOp = "none"
    /\ output = NoCall
    /\ compliance = NewCrawler
    /\ tasks = NoTasks
    /\ jobs = NoJobs

\* BaseCrawler._make_request(url): the request is sent if the check allows
\* it, and answered or failed
MakeRequest ==
    /\ \A s \in Sites : compliance.request_history[s] < MaxRequests
    /\ \E url \in Urls, answered \in BOOLEAN :
       \E c \in check_compliance(compliance, url, input.robots) :
          /\ c.allowed \/ answered
          /\ compliance' = IF c.allowed
                           THEN [c.checker EXCEPT !.sent = c.checker.sent \cup {url}]
                           ELSE c.checker
          /\ output' = [fn |-> "_make_request", url |-> url, can_fetch |-> c.allowed,
                        reason |-> c.reason, response |-> c.allowed /\ answered]
    /\ UNCHANGED <<collection, run, dbc, corpus0, built, relationships, workers,
                   stats, lastOp, input, tasks, jobs>>

\* ComplianceChecker.can_fetch(url), asked on its own
CanFetch ==
    /\ \E url \in Urls :
          LET cache == CacheRobots(compliance.robots_cache, url.site, input.robots)
          IN /\ compliance' = [compliance EXCEPT !.robots_cache = cache]
             /\ output' = [fn |-> "can_fetch", url |-> url,
                           can_fetch |-> can_fetch(cache, url),
                           reason |-> "", response |-> FALSE]
    /\ UNCHANGED <<collection, run, dbc, corpus0, built, relationships, workers,
                   stats, lastOp, input, tasks, jobs>>

ComplianceNext == MakeRequest \/ CanFetch

ComplianceSpec == ComplianceInit /\ [][ComplianceNext]_vars

----------------------------------------------------------------------------
(* CrawlerOrchestrator.run_phase1_week1 and its crawl tasks *)

\* the tasks of the week: the source type and the number of documents expected
WeekPlan ==
    <<[source_type |-> "chinatax_law", total_count |-> 5],
      [source_type |-> "chinatax_regulation", total_count |-> 25],
      [source_type |-> "chinatax_rule", total_count |-> 500]>>

\* the numbers of pages a crawl of a category may count as saved or as failed
PageCounts == {0, 3, 6}

\* a quotient of two integers, as given: Python keeps it as a float
Ratio(num, den) == [num |-> num, den |-> den]

\* CrawlTask(...) of _create_task: the fields given and the defaults
CrawlTask(task_id, source_type, total_count) ==
    [task_id |-> task_id, source_type |-> source_type, status |-> "running",
     total_count |-> total_count, success_count |-> 0, failed_count |-> 0,
     progress |-> Ratio(0, 1)]

\* tasks_collection.update_one({'task_id': ...}, {'$set': doc_dict}, upsert=True)
save_crawl_task(coll, task) ==
    IF \E i \in DOMAIN coll : coll[i].task_id = task.task_id
    THEN [i \in DOMAIN coll |-> IF coll[i].task_id = task.task_id THEN task ELSE coll[i]]
    ELSE Append(coll, task)

\* CrawlerOrchestrator._update_task_progress
_update_task_progress(coll, task_id, success_count, failed_count, status) ==
    [i \in DOMAIN coll |->
        IF coll[i].task_id = task_id
        THEN LET task == coll[i]
                 total_success == task.success_count + success_count
                 total_failed == task.failed_count + failed_count
                 total == task.total_count
                 progress == IF total > 0 THEN Ratio(total_success + total_failed, total)
                             ELSE Ratio(0, 1)
             IN [task EXCEPT !.success_count = total_success,
                             !.failed_count = total_failed,
                             !.progress = progress,
                             !.status = status]
        ELSE coll[i]]

\* the frame of the phase: where it is, the task it is at, the stats of the
\* crawl that returned last
PhaseFrame(pc, k, crawl_stats) == [pc |-> pc, k |-> k, stats |-> crawl_stats]

NoStats == [success |-> 0, failed |-> 0]

PhaseInit ==
    /\ collection = <<>>
    /\ run = IdleRun
    /\ dbc = IdleDbc
    /\ corpus0 = collection
    /\ built = NoGraph
    /\ relationships = {}
    /\ workers = <<>>
    /\ stats = <<>>
    /\ lastOp = "none"
    /\ input = NoCall
    /\ output = NoCall
    /\ compliance = NoCrawler
    /\ tasks = NoTasks
    /\ jobs = <<PhaseFrame("create", 1, NoStats)>>

\* task = self._create_task(...); self.db.save_crawl_task(task)
CreateTask ==
    /\ jobs[1].pc = "create"
    /\ tasks' = save_crawl_task(tasks,
                    CrawlTask(Len(tasks) + 1, WeekPlan[jobs[1].k].source_type,
                              WeekPlan[jobs[1].k].total_count))
    /\ jobs' = <<[jobs[1] EXCEPT !.pc = "crawl"]>>
    /\ UNCHANGED <<collection, run, dbc, corpus0, built, relationships, workers,
                   stats, lastOp, input, output, compliance>>

\* crawler.crawl_laws and the like: the stats of the category are returned
CrawlReturns ==
    /\ jobs[1].pc = "crawl"
    /\ \E success \in PageCounts, failed \in PageCounts :
          jobs' = <<[jobs[1] EXCEPT !.pc = "update",
                                    !.stats = [success |-> success, failed |-> failed]]>>
    /\ UNCHANGED <<collection, run, dbc, corpus0, built, relationships, workers,
                   stats, lastOp, input, output, compliance, tasks>>

\* the crawl raises: `finally: crawler.close()` and the exception leaves the phase
CrawlRaises ==
    /\ jobs[1].pc = "crawl"
    /\ jobs' = <<[jobs[1] EXCEPT !.pc = "aborted"]>>
    /\ UNCHANGED <<collection, run, dbc, corpus0, built, relationships, workers,
                   stats, lastOp, input, output, compliance, tasks>>

\* self._update_task_progress(task.task_id, stats['success'], stats['failed'],
\* 'completed'), and on to the next task of the week
UpdateTaskProgress ==
    /\ jobs[1].pc = "update"
    /\ tasks' = _update_task_progress(tasks, Len(tasks), jobs[1].stats.success,
                                      jobs[1].stats.failed, "completed")
    /\ jobs' = <<IF jobs[1].k < Len(WeekPlan)
                 THEN [jobs[1] EXCEPT !.pc = "create", !.k = jobs[1].k + 1]
                 ELSE [jobs[1] EXCEPT !.pc = "relationships"]>>
    /\ UNCHANGED <<collection, run, dbc, corpus0, built, relationships, workers,
                   stats, lastOp, input, output, compliance>>

\* the relationships of what was crawled, and `return results`
PhaseReturns ==
    /\ jobs[1].pc = "relationships"
    /\ jobs' = <<[jobs[1] EXCEPT !.pc = "returned"]>>
    /\ lastOp' = "phase1_week1"
    /\ UNCHANGED <<collection, run, dbc, corpus0, built, relationships, workers,
                   stats, input, output, compliance, tasks>>

PhaseNext ==
    \/ CreateTask
    \/ CrawlReturns
    \/ CrawlRaises
    \/ UpdateTaskProgress
    \/ PhaseReturns

PhaseSpec == PhaseInit /\ [][PhaseNext]_vars

\* the phase is one thread: while it has not returned or aborted it takes
\* its next step
PhaseFairSpec == PhaseSpec /\ WF_vars(PhaseNext)

----------------------------------------------------------------------------
(* The backend's crawler routes: CrawlerTaskManager, the start, pause and *)
(* stop endpoints and simulate_crawl_task                                 *)

MaxStarts == 3

\* total_steps of simulate_crawl_task, scaled down
TotalSteps == 2

\* a task id is the second it was created in
TaskIds == 1..MaxStarts

\* task_manager = CrawlerTaskManager()
NewManager ==
    [tasks |-> <<>>, current_task |-> None, crawl_status |-> "idle", progress |-> 0]

\* self.tasks[task_id] = {...}
PutTask(m, task_id, task) ==
    [m EXCEPT !.tasks = [id \in DOMAIN m.tasks \cup {task_id} |->
                            IF id = task_id THEN task ELSE m.tasks[id]]]

\* CrawlerTaskManager.create_task, in the second task_id
create_task(m, task_id, phase) ==
    PutTask(m, task_id, [id |-> task_id, phase |-> phase, status |-> "pending",
                         progress |-> 0, policies_crawled |-> 0])

start_task(m, task_id) ==
    IF task_id \in DOMAIN m.tasks
    THEN [m EXCEPT !.tasks[task_id].status = "running",
                   !.current_task = task_id,
                   !.crawl_status = "running"]
    ELSE m

pause_task(m, task_id) ==
    IF task_id \in DOMAIN m.tasks
    THEN [m EXCEPT !.tasks[task_id].status = "paused", !.crawl_status = "paused"]
    ELSE m

stop_task(m, task_id) ==
    IF task_id \in DOMAIN m.tasks
    THEN [m EXCEPT !.tasks[task_id].status = "stopped", !.crawl_status = "stopped"]
    ELSE m

complete_task(m, task_id) ==
    IF task_id \in DOMAIN m.tasks
    THEN [m EXCEPT !.tasks[task_id].status = "completed",
                   !.crawl_status = "idle",
                   !.current_task = None]
    ELSE m

update_progress(m, task_id, progress, policies_crawled) ==
    IF task_id \in DOMAIN m.tasks
    THEN [m EXCEPT !.tasks[task_id].progress = progress,
                   !.tasks[task_id].policies_crawled = policies_crawled,
                   !.progress = progress]
    ELSE m

\* the frame of one simulate_crawl_task: its task, its i, whether it returned
JobFrame(task_id, i, ended) == [task_id |-> task_id, i |-> i, ended |-> ended]

\* simulate_crawl_task from one await to the next: the manager and the frame
simulate_crawl_task(m, job) ==
    LET status == m.tasks[job.task_id].status
        progress == (job.i * 100) \div TotalSteps
    IN IF job.i > TotalSteps \/ status = "stopped"
       THEN [manager |-> complete_task(m, job.task_id),
             job |-> [job EXCEPT !.ended = TRUE]]
       ELSE IF status = "paused"
       THEN [manager |-> m, job |-> [job EXCEPT !.i = job.i + 1]]
       ELSE [manager |-> update_progress(m, job.task_id, progress, job.i),
             job |-> [job EXCEPT !.i = job.i + 1]]

RoutesInit ==
    /\ collection = <<>>
    /\ run = IdleRun
    /\ dbc = IdleDbc
    /\ corpus0 = collection
    /\ built = NoGraph
    /\ relationships = {}
    /\ workers = <<>>
    /\ stats = <<>>
    /\ lastOp = "none"
    /\ input = NoCall
    /\ output = NoCall
    /\ compliance = NoCrawler
    /\ tasks = NewManager
    /\ jobs = <<>>

\* POST /start: refused while the crawler is running; the id of the new task
\* is the second of the call, which is not before that of any earlier task
StartCrawl ==
    /\ tasks.crawl_status # "running"
    /\ Len(jobs) < MaxStarts
    /\ \E task_id \in TaskIds :
          /\ \A id \in DOMAIN tasks.tasks : id <= task_id
          /\ tasks' = start_task(create_task(tasks, task_id, "test"), task_id)
          /\ jobs' = Append(jobs, JobFrame(task_id, 0, FALSE))
    /\ lastOp' = "start"
    /\ UNCHANGED <<collection, run, dbc, corpus0, built, relationships, workers,
                   stats, input, output, compliance>>

\* POST /pause
PauseCrawl ==
    /\ tasks.current_task # None
    /\ tasks' = pause_task(tasks, tasks.current_task)
    /\ lastOp' = "pause"
    /\ UNCHANGED <<collection, run, dbc, corpus0, built, relationships, workers,
                   stats, input, output, compliance, jobs>>

\* POST /stop
StopCrawl ==
    /\ tasks.current_task # None
    /\ tasks' = stop_task(tasks, tasks.current_task)
    /\ lastOp' = "stop"
    /\ UNCHANGED <<collection, run, dbc, corpus0, built, relationships, workers,
                   stats, input, output, compliance, jobs>>

\* a background job runs from one await to the next
JobStep ==
    \E j \in DOMAIN jobs :
        /\ ~jobs[j].ended
        /\ tasks' = simulate_crawl_task(tasks, jobs[j]).manager
        /\ jobs' = [jobs EXCEPT ![j] = simulate_crawl_task(tasks, jobs[j]).job]
        /\ lastOp' = "job"
        /\ UNCHANGED <<collection, run, dbc, corpus0, built, relationships, workers,
                       stats, input, output, compliance>>

RoutesNext == StartCrawl \/ PauseCrawl \/ StopCrawl \/ JobStep

RoutesSpec == RoutesInit /\ [][RoutesNext]_vars

----------------------------------------------------------------------------
(* The properties *)

\* the relationship fields of every stored document
Graph(coll) ==
    [i \in DOMAIN coll |->
        [policy_id |-> coll[i].policy_id,
         parent_policy_id |-> coll[i].parent_policy_id,
         legislation_chain |-> coll[i].legislation_chain,
         root_law_id |-> coll[i].root_law_id,
         related_policy_ids |-> coll[i].related_policy_ids,
         cited_by_policy_ids |-> coll[i].cited_by_policy_ids,
         qa_reference_ids |-> coll[i].qa_reference_ids]]

C2_ParentCitedBySymmetry ==
    (run.pc = "idle" /\ built # NoGraph) =>
        \A i \in DOMAIN collection :
            LET d == collection[i]
                parent == find_by_id(collection, d.parent_policy_id)
            IN (corpus0[i].parent_policy_id = None /\ d.parent_policy_id # None) =>
                  /\ parent.policy_id = d.parent_policy_id
                  /\ d.policy_id \in Range(parent.cited_by_policy_ids)

\* C3: once the chain built from D is stored, every stored document of the
\* walked path carries that chain and its root.
C3_ChainStoredAlongPath ==
    run.pc = "related" =>
        \A k \in DOMAIN run.chain :
            LET a == find_by_id(collection, run.chain[k])
            IN a.policy_id # None =>
                  /\ a.legislation_chain = run.chain
                  /\ a.root_law_id = run.chain[Len(run.chain)]

WalkGuard ==
    /\ run.pc \in {"walk", "chain"} =>
          /\ NoRepeat(run.chain)
          /\ Range(run.chain) = run.visited
          /\ Len(run.chain) <= NumDocs + 1
    /\ dbc.pc \in {"walk", "store"} =>
          /\ NoRepeat(dbc.chain)
          /\ Len(dbc.chain) <= NumDocs

WalkProgress ==
    /\ (run.pc = "walk" /\ run'.pc = "walk") =>
          /\ Len(run'.chain) = Len(run.chain) + 1
          /\ run.current_id \notin run.visited
    /\ (dbc.pc = "walk" /\ dbc'.pc = "walk") =>
          /\ Len(dbc'.chain) = Len(dbc.chain) + 1
          /\ dbc.current_id \notin Range(dbc.chain)

\* C4: over any parent pointers, self-loops and longer cycles included, a chain
\* walk ends: every turn that stays in the walk visits an identity not visited
\* before, of which there are finitely many, and the walk is left at the first
\* identity it would visit again.
C4_WalkTerminates == []WalkGuard /\ [][WalkProgress]_vars

\* the builder's walk left because its next identity was visited already,
\* after a cycle through every stored document
C4_Witness ==
    /\ run.pc = "chain"
    /\ run.current_id \in run.visited
    /\ Len(run.chain) = NumDocs

\* C5: a build run again over a corpus nothing else has changed leaves parent,
\* chain, root, related list and QA references as the first run left them.
C5_RebuildIdempotent ==
    (run.pc = "idle" /\ built # NoGraph) => Graph(collection) = Graph(built)

\* the relationship fields, the QA references as the set of their ids
GraphUpToOrder(coll) ==
    [i \in DOMAIN coll |->
        [Graph(coll)[i] EXCEPT !.qa_reference_ids = Range(coll[i].qa_reference_ids)]]

\* what a further run does keep: every field but the order of the QA references
RebuildKeepsEdges == built # NoGraph => GraphUpToOrder(collection) = GraphUpToOrder(built)

\* C6: a build interrupted after some of its store updates and run again from
\* the start leaves the graph one uninterrupted run over the same corpus leaves.
C6_ResumeEqualsFullRun ==
    (run.pc = "idle" /\ lastOp = "resumed") =>
        \E seed \in HashSeeds, batch_size \in BatchSizes :
            Graph(built) = Graph(FullBuild(corpus0, batch_size, seed))

\* C8: insert_policy on a policy_id that is stored leaves the relationship
\* fields earlier passes accumulated as they were.
C8_UpsertKeepsRelationships ==
    [][InsertPolicy => Graph(collection') = Graph(collection)]_vars

\* C9: neither build_all_relationships nor the chain walk changes a
\* parent_policy_id that is already set.
C9_ExistingParentKept ==
    [][\A i \in DOMAIN collection :
          collection[i].parent_policy_id # None =>
              collection'[i].parent_policy_id = collection[i].parent_policy_id]_vars

\* a build completed on a document that came with a parent other than the one
\* find_parent_policy resolves for it
C9_Witness ==
    /\ built # NoGraph
    /\ run.pc = "idle"
    /\ \E i \in DOMAIN collection :
          /\ corpus0[i].parent_policy_id # None
          /\ collection[i].parent_policy_id = corpus0[i].parent_policy_id
          /\ \A seed \in HashSeeds :
                find_parent_policy(collection, collection[i], seed)
                   \notin {None, corpus0[i].parent_policy_id}

AllDone == workers # <<>> /\ \A w \in Workers : workers[w].pc = "done"

\* every stored document with a parent written for it is in that parent's cited_by
CitedByComplete ==
    \A i \in DOMAIN collection :
        LET d == collection[i]
            parent == find_by_id(collection, d.parent_policy_id)
        IN (d.parent_policy_id # None /\ parent.policy_id # None) =>
              d.policy_id \in Range(parent.cited_by_policy_ids)

\* C7: when relationship updates that touch the same documents have run side
\* by side, in whatever order their store operations interleaved, the identity
\* of every citing document is in the cited document's cited_by set.
C7_NoLostUpdate == AllDone => CitedByComplete

\* the same of calls of update_policy_relationships alone
UpdatesLoseNothing ==
    (AllDone /\ \A w \in Workers : workers[w].kind = "update") => CitedByComplete

\* C10: a run of deduplicate_policies right after another deletes no document
\* (removed == 0) and leaves the store as it was.
C10_DedupIdempotent ==
    [][(Deduplicate /\ stats # <<>>) =>
          /\ collection' = collection
          /\ stats'[Len(stats')].removed = 0]_vars

\* a second run has followed one that deleted two documents or more
C10_Witness == Len(stats) >= 2 /\ stats[1].removed >= 2

\* C11: deduplicate_policies leaves of every group of documents with the same
\* title and publish date exactly the one crawled earliest, and deletes no
\* document that shares its title and publish date with no other.
C11_KeepsEarliestCrawled ==
    [][Deduplicate =>
          \A i \in DOMAIN collection :
              LET d == collection[i]
                  group == {j \in DOMAIN collection :
                               GroupId(collection[j]) = GroupId(d)}
              IN (d \in Range(collection')) <=>
                    (\A j \in group : d.crawled_at <= collection[j].crawled_at)]_vars

\* what the run does keep of every group: the document read first
KeepsFirstRead ==
    [][Deduplicate =>
          \A i \in DOMAIN collection :
              (collection[i] \in Range(collection')) <=>
                  (\A j \in 1..(i - 1) : GroupId(collection[j]) # GroupId(collection[i]))]_vars

\* the pairs of stored documents, first before second in reading order, whose
\* texts are similar at the threshold or above
SimilarPairs(coll, threshold) ==
    {<<coll[i].policy_id, coll[j].policy_id>> :
        <<i, j>> \in {p \in (DOMAIN coll) \X (DOMAIN coll) :
                        /\ p[1] < p[2]
                        /\ LET s == _calculate_similarity(coll[p[1]].content,
                                                          coll[p[2]].content)
                           IN s[1] >= threshold * s[2]}}

LevelOfType ==
    [type \in {"LAW", "ADMIN_REGULATION", "TREATY", "FISCAL_DOC", "ANNOUNCEMENT",
               "DIRECTOR_ORDER", "MOF_DOC", "NORMATIVE_DOC", "IMPLEMENTATION_RULE",
               "INTERPRETATION", "QA"} |->
        CASE type \in {"LAW", "ADMIN_REGULATION", "TREATY"} -> "L1"
          [] type \in {"FISCAL_DOC", "ANNOUNCEMENT", "DIRECTOR_ORDER", "MOF_DOC"} -> "L2"
          [] type \in {"NORMATIVE_DOC", "IMPLEMENTATION_RULE"} -> "L3"
          [] type \in {"INTERPRETATION", "QA"} -> "L4"]

\* C13: for every title and body determine_document_level returns a level of
\* L1..L4 and a type that is a named DocumentType, and the level is a function
\* of the type: no type comes with two levels.
C13_ClassificationTotal ==
    output.fn = "determine_document_level" =>
        /\ output.level \in {"L1", "L2", "L3", "L4"}
        /\ output.document_type \in DOMAIN LevelOfType
        /\ output.level = LevelOfType[output.document_type]

\* a text no rule matches has been classified by the default
C13_Witness ==
    /\ output.fn = "determine_document_level"
    /\ output.doc_type = "NormativeDocument"
    /\ ~Has("AdminMeasures", input.title)
    /\ ~Has("ImplMeasures", input.title)

\* C14: the crawler's classifier returns L1 and the type Law only for a title
\* that matches the national-law pattern with a body that references the
\* national legislature, as rule 1 of the six-rule table has it.
C14_LawNeedsLegislature ==
    (output.fn = "determine_document_level" /\ output.level = "L1"
        /\ output.doc_type = "Law") =>
        /\ NationalLawPattern(input.title)
        /\ Has("NPC", input.content) \/ Has("NPCShort", input.content)

\* the backend's classifier does ask for both: LAW only for a named law whose
\* body references the legislature
BackendLawNeedsLegislature ==
    (output.fn = "determine_policy_level" /\ output.policy_level = "LAW") =>
        /\ NationalLawPattern(input.title)
        /\ Has("NPC", input.content) \/ Has("NPCShort", input.content)

\* the grade the boundaries give
LetterGrade(score) ==
    CASE score >= 90 -> "A"
      [] score >= 75 /\ score <= 89 -> "B"
      [] score >= 60 /\ score <= 74 -> "C"
      [] score < 60 -> "D"

\* C15: for every score of 0..100 the grade is A from 90, B from 75 to 89, C
\* from 60 to 74 and D below 60, and determine_quality_level, the quality
\* report and fix_common_issues all grade by these boundaries (the backend's
\* levels 5, 4 and 3 too, with D split in levels 2 and 1).
C15_GradeBoundaries ==
    /\ output.fn = "determine_quality_level" =>
          /\ output.quality_level = LetterGrade(input.score)
          /\ output.report_level = LetterGrade(input.score)
          /\ output.backend_level =
                (CASE LetterGrade(input.score) = "A" -> 5
                   [] LetterGrade(input.score) = "B" -> 4
                   [] LetterGrade(input.score) = "C" -> 3
                   [] input.score >= 40 /\ input.score < 60 -> 2
                   [] OTHER -> 1)
    /\ lastOp = "fix" =>
          \A i \in DOMAIN collection :
              collection[i].quality_level = LetterGrade(Get(collection[i], "quality_score", 0))

\* the scores next to a boundary have been graded, by both
C15_Witness ==
    /\ input.score \in {89, 90, 74, 75, 59, 60}
    /\ output.fn = "determine_quality_level"
    /\ lastOp = "fix"
    /\ collection[1].quality_level = output.quality_level

\* the authority sub-score of a level
Authority(level) ==
    CASE level = "L1" -> 100
      [] level = "L2" -> 90
      [] level = "L3" -> 70
      [] level = "L4" -> 50

\* C17: the score of a document is 0.25 completeness + 0.30 authority + 0.20
\* relationship + 0.15 timeliness + 0.10 content depth, every sub-score in
\* 0..100 and authority 100, 90, 70, 50 for L1..L4: so it lies between 0.30
\* of the authority of the level and 70 more, whatever the other sub-scores.
C17_WeightedComposite ==
    (output.fn = "calculate_quality_score" /\ input.doc.document_level \in Levels) =>
        /\ 100 * output.score >= 30 * Authority(input.doc.document_level)
        /\ 100 * output.score <= 30 * Authority(input.doc.document_level) + 70 * 100

\* what the scorer computes: points for each filled field added up, the level
\* worth 20, 15, 10 or 5 of them
ScoreIsChecklist ==
    output.fn = "calculate_quality_score" =>
        output.score =
            calculate_quality_score(SetFields(input.doc, [document_level |-> ""]))
            + (CASE input.doc.document_level = "L1" -> 20
                 [] input.doc.document_level = "L2" -> 15
                 [] input.doc.document_level = "L3" -> 10
                 [] input.doc.document_level = "L4" -> 5
                 [] OTHER -> 0)

\* C16: the crawler's scorer, the backend's scorer and validate_policy all
\* return a score of 0..100, whatever fields are present, whatever the level,
\* the relationship fields and the length of the content.
C16_ScoreInRange ==
    /\ output.fn \in {"calculate_quality_score", "policy_schema.calculate_quality_score"} =>
          output.score \in 0..100
    /\ (output.fn = "validate_policy" /\ output.result.raised = "") =>
          output.result.score \in 0..100

\* validate_policy has returned seven issues or more and three warnings or
\* more for one document
C16_Witness ==
    /\ output.fn = "validate_policy" /\ output.result.raised = ""
    /\ Len(output.result.issues) >= 7
    /\ Len(output.result.warnings) >= 3

\* validate_policy has returned
Returned == output.fn = "validate_policy" /\ output.result.raised = ""

\* C18: a result of validate_policy with an issue in it has valid false.
C18_IssuesBlockValidity ==
    (Returned /\ output.result.issues # <<>>) => ~output.result.valid

\* what the flag is: the score is 60 or more, issues or not
ValidIsScoreAtLeast60 ==
    Returned => (output.result.valid <=> output.result.score >= 60)

\* the points an issue costs
IssuePoints(issue) ==
    CASE issue \in {"L4NotLinked"} -> 15
      [] issue \in {"ParentMissing", "ContentTooShort"} -> 10
      [] OTHER -> 5

\* the points a warning costs
WarningPoints(warning) ==
    CASE warning = "NoLegislationChain" -> 10
      [] warning = "RegionNotTagged" -> 3
      [] OTHER -> 5

RECURSIVE IssuesCost(_)
IssuesCost(issues) ==
    IF issues = <<>> THEN 0 ELSE IssuePoints(Head(issues)) + IssuesCost(Tail(issues))

RECURSIVE WarningsCost(_)
WarningsCost(warnings) ==
    IF warnings = <<>> THEN 0
    ELSE WarningPoints(Head(warnings)) + WarningsCost(Tail(warnings))

\* C19: the warnings of validate_policy cost nothing: the score is 100 less
\* the points of the issues, and a document whose issues leave it 60 or more
\* is valid, whatever warnings it has.
C19_WarningsInformational ==
    Returned =>
        /\ output.result.score = 100 - IssuesCost(output.result.issues)
        /\ 100 - IssuesCost(output.result.issues) >= 60 => output.result.valid

\* what the score is: 100 less the points of the issues and of the warnings
WarningsLowerScore ==
    Returned =>
        output.result.score = 100 - IssuesCost(output.result.issues)
                                  - WarningsCost(output.result.warnings)

\* the parent_policy_id names a document that is not in the store
ParentAbsent(policy) ==
    /\ policy.parent_policy_id # None
    /\ \A i \in DOMAIN collection : collection[i].policy_id # policy.parent_policy_id

\* the effective date is before the publish date, or the expiry date before
\* the effective date
DatesInverted(policy) ==
    \/ /\ policy.publish_date # None /\ policy.effective_date # None
       /\ policy.effective_date < policy.publish_date
    \/ /\ policy.effective_date # None /\ policy.expiry_date # None
       /\ policy.expiry_date < policy.effective_date

\* C20: for a document with an absent parent or inverted dates validate_policy
\* returns, with the issue in its list, and validate_all returns a report that
\* counts it.
C20_ViolationsReported ==
    /\ (output.fn = "validate_policy" /\ ParentAbsent(input.policy)) =>
          /\ output.result.raised = ""
          /\ "ParentMissing" \in Range(output.result.issues)
    /\ (output.fn = "validate_policy" /\ DatesInverted(input.policy)) =>
          /\ output.result.raised = ""
          /\ \E issue \in Range(output.result.issues) :
                issue \in {"EffectiveDateBeforePublishDate", "ExpiryDateBeforeEffectiveDate"}
    /\ (output.fn = "validate_all" /\ ParentAbsent(input.policy)) =>
          /\ output.result.raised = ""
          /\ output.result.issues_by_type["broken_relationships"] >= 1
    /\ (output.fn = "validate_all" /\ DatesInverted(input.policy)) =>
          /\ output.result.raised = ""
          /\ output.result.issues_by_type["invalid_dates"] >= 1

\* on the connector of the orchestrator all of it holds, and the report
\* counts every document
ReportedOnV2 ==
    output.fn \in {"validate_policy", "validate_all"} /\ output.connector = "MongoDBConnectorV2"
        => /\ C20_ViolationsReported
           /\ output.result.raised = ""
           /\ output.fn = "validate_all" =>
                 /\ output.result.total_policies = Len(collection)
                 /\ output.result.valid_policies + output.result.invalid_policies
                       = Len(collection)

\* on the connector of the command line every document with a parent ends
\* the validation with an AttributeError
RaisesOnV1 ==
    (output.fn \in {"validate_policy", "validate_all"}
        /\ output.connector = "MongoDBConnector") =>
        (output.result.raised = "AttributeError" <=> input.policy.parent_policy_id # None)


\* C21: processing a page never raises and never drops it: it returns a
\* record whose fields that could not be extracted are absent, with score 0
\* when nothing could be extracted.
NothingExtracted ==
    /\ output.returned = "policy_data"
    /\ ~Filled(output.policy_data.document_number)
    /\ output.policy_data.publish_date = None
    /\ output.policy_data.effective_date = None
    /\ output.policy_data.expiry_date = None

C21_DegradeNeverFail ==
    output # NoCall =>
        /\ output.returned = "policy_data"
        /\ NothingExtracted => output.quality_score = 0

\* what process_policy does: a page without a title or a body is dropped, a
\* page processed without extra data raises, any other is returned
ProcessOutcome ==
    output # NoCall =>
        output.returned =
            IF input.title.len = 0 \/ input.content.len = 0 THEN "None"
            ELSE IF input.extra_data = "None" THEN "AttributeError"
            ELSE "policy_data"

\* a date the calendar does not have, or no date at all, leaves the field
\* absent and does not raise; the score of a returned record is 20 or more
DatesDegrade ==
    output # NoCall /\ output.returned = "policy_data" =>
        /\ "WrittenOn" \notin Range(input.content.text)
              => output.policy_data.publish_date = input.metadata.publish_date
        /\ Range(input.content.text) \cap {"Period"} = {}
              => output.policy_data.expiry_date = None
        /\ output.quality_score >= 20

DatesDegrade_Witness ==
    /\ output # NoCall
    /\ output.returned = "policy_data"
    /\ "WrittenOn30Feb" \in Range(input.content.text)
    /\ output.policy_data.publish_date = None


\* the document whose chain the builder has just stored
JustChained == find_by_id(collection, run.policies[run.i].policy_id)

\* the parent named by a document is not in the store
ParentNotStored(d) ==
    d.parent_policy_id # None /\ find_by_id(collection, d.parent_policy_id).policy_id = None

\* C22: a document with no resolvable parent, and a document whose
\* parent_policy_id names a document that is not in the store, gets a chain of
\* length 1, itself, and is its own root.
C22_AbsentParentChainOfOne ==
    /\ run.pc = "related"
    /\ JustChained.parent_policy_id = None \/ ParentNotStored(JustChained)
    => /\ JustChained.legislation_chain = <<JustChained.policy_id>>
       /\ JustChained.root_law_id = JustChained.policy_id

\* the half that holds: no parent resolved, a chain of the document alone
NoParentChainOfOne ==
    run.pc = "related" /\ JustChained.parent_policy_id = None
        => /\ JustChained.legislation_chain = <<JustChained.policy_id>>
           /\ JustChained.root_law_id = JustChained.policy_id

NoParentChainOfOne_Witness ==
    /\ run.pc = "related"
    /\ JustChained.parent_policy_id = None
    /\ JustChained.legislation_chain = <<JustChained.policy_id>>

\* what the builder stores for a parent that is not in the store: the
\* document, then the identity that names nothing, which is also the root
AbsentParentIsChained ==
    run.pc = "related" /\ ParentNotStored(JustChained)
        => /\ JustChained.legislation_chain =
                  <<JustChained.policy_id, JustChained.parent_policy_id>>
           /\ JustChained.root_law_id = JustChained.parent_policy_id


\* the place of a level in the order L1 > L2 > L3 > L4
Rank(level) ==
    CASE level = "L1" -> 1 [] level = "L2" -> 2 [] level = "L3" -> 3 [] level = "L4" -> 4

\* C23: every parent the builder writes is of the level of its child or of a
\* level above it.
C23_ParentNotBelowChild ==
    \A i \in DOMAIN collection :
        collection[i].parent_policy_id # None =>
            Rank(find_by_id(collection, collection[i].parent_policy_id).document_level)
                <= Rank(collection[i].document_level)

\* the second strategy alone asks for a level: a cited parent is L1 or L2
CitedParentIsL1OrL2 ==
    \A i \in DOMAIN collection :
        LET d == collection[i]
            cited == _extract_cited_policies(d.content, run.seed)
        IN /\ d.parent_policy_id # None
           /\ MappingHits(corpus0, d.title) = {}
           /\ CitedHits(corpus0, cited) # {}
           => find_by_id(collection, d.parent_policy_id).document_level \in {"L1", "L2"}


\* C27: over a corpus in which no document had a parent, the build leaves no
\* document as its own parent.
C27_NoSelfParent ==
    \A i \in DOMAIN collection :
        collection[i].parent_policy_id # collection[i].policy_id

\* a document becomes its own parent by a strategy that looks for a title
\* the document's own title contains
SelfParentByOwnTitle ==
    \A i \in DOMAIN collection :
        LET d == collection[i]
        IN d.parent_policy_id = d.policy_id =>
              \/ \E k \in DOMAIN super_law_mapping :
                    /\ Contains(super_law_mapping[k].key, d.title)
                    /\ Contains(super_law_mapping[k].parent_title, d.title)
              \/ \E k \in DOMAIN d.content : Contains(d.content[k], d.title)
              \/ \E k \in DOMAIN d.tax_type :
                    Contains(RootLawTitle(d.tax_type[k]), d.title)


\* the chain starts at the document and each element's parent in the store is
\* the next element
FollowsParents(coll, d) ==
    LET chain == d.legislation_chain
    IN chain # <<>> =>
          /\ chain[1] = d.policy_id
          /\ \A k \in 1..(Len(chain) - 1) :
                find_by_id(coll, chain[k]).parent_policy_id = chain[k + 1]

\* C28: every stored chain starts at its document and follows the parent
\* pointers of the store.
C28_ChainFollowsParents ==
    \A i \in DOMAIN collection : FollowsParents(collection, collection[i])

\* the chains the builder itself stores do follow the parents
BuilderChainFollowsParents ==
    lastOp \notin {"db_chain", "insert"} => C28_ChainFollowsParents

BuilderChainFollowsParents_Witness ==
    /\ lastOp \notin {"db_chain", "insert"}
    /\ \E i \in DOMAIN collection : Len(collection[i].legislation_chain) = NumDocs


\* the robots.txt of the url's site was read and disallows the url
Disallowed(url) ==
    /\ url.site \in DOMAIN compliance.robots_cache
    /\ compliance.robots_cache[url.site].loaded
    /\ url.path \in compliance.robots_cache[url.site].disallow

\* C24: no request is sent for a url that the site's robots.txt, read with
\* success, disallows; for such a url the check answers not-allowed and
\* _make_request returns without a request.
C24_RobotsRespected ==
    /\ \A url \in compliance.sent : ~Disallowed(url)
    /\ output # NoCall /\ Disallowed(output.url) => ~output.can_fetch

\* what the checker does: robots.txt never stops a request; a url is refused
\* exactly when its site is not one of the government's
OnlyTheSiteDecides ==
    output # NoCall /\ output.fn = "_make_request" =>
        (output.can_fetch <=> is_public_government_site(output.url))

\* outside the government's sites can_fetch does follow robots.txt
CanFetchElsewhere ==
    /\ output # NoCall
    /\ output.fn = "can_fetch"
    /\ ~is_public_government_site(output.url)
    /\ Disallowed(output.url)
    => ~output.can_fetch


\* C25: the stored progress of every task is within 0..1.
C25_ProgressInUnit ==
    \A i \in DOMAIN tasks :
        /\ 0 <= tasks[i].progress.num
        /\ tasks[i].progress.num <= tasks[i].progress.den

\* what the progress is: the pages counted over the pages expected, not
\* limited by them
ProgressIsCountedOverExpected ==
    \A i \in DOMAIN tasks :
        /\ tasks[i].progress.num = tasks[i].success_count + tasks[i].failed_count
        /\ tasks[i].progress.den \in {1, tasks[i].total_count}
        /\ tasks[i].progress.num >= 0

TerminalStatus == {"completed", "failed"}

PhaseEnded == jobs[1].pc \in {"returned", "aborted"}

\* C30: every task saved as running comes to be completed or failed, also
\* when its crawl raises.
C30_RunningEndsTerminal ==
    \A k \in DOMAIN WeekPlan :
        (Len(tasks) >= k /\ tasks[k].status = "running")
            ~> (Len(tasks) >= k /\ tasks[k].status \in TerminalStatus)

\* a phase that returns leaves every task completed
ReturnedPhaseCompletesAll ==
    jobs[1].pc = "returned" =>
        /\ Len(tasks) = Len(WeekPlan)
        /\ \A i \in DOMAIN tasks : tasks[i].status = "completed"

\* a phase that aborts leaves the task whose crawl raised as running, and no
\* task is ever failed
AbortedPhaseLeavesRunning ==
    /\ \A i \in DOMAIN tasks : tasks[i].status # "failed"
    /\ jobs[1].pc = "aborted" => tasks[Len(tasks)].status = "running"


RunningTasks == {id \in DOMAIN tasks.tasks : tasks.tasks[id].status = "running"}

\* the jobs that have not returned and whose task is running: their next
\* step updates the progress
AdvancingJobs ==
    {j \in DOMAIN jobs : ~jobs[j].ended /\ tasks.tasks[jobs[j].task_id].status = "running"}

\* C26: at most one task is running and at most one background job is
\* advancing.
C26_OneCrawlAtATime ==
    /\ Cardinality(RunningTasks) <= 1
    /\ Cardinality(AdvancingJobs) <= 1

\* what the start endpoint does guarantee: it starts nothing while the
\* manager's own status is running
StartOnlyWhenNotRunning ==
    [][lastOp' = "start" /\ Len(jobs') > Len(jobs) => tasks.crawl_status # "running"]_vars

\* C29: a stopped task stays stopped and its progress is not updated again.
C29_StopIsTerminal ==
    [][\A id \in DOMAIN tasks.tasks :
          tasks.tasks[id].status = "stopped"
              => /\ id \in DOMAIN tasks'.tasks
                 /\ tasks'.tasks[id].status = "stopped"
                 /\ tasks'.tasks[id].progress = tasks.tasks[id].progress]_vars

\* the half that holds: the job of a stopped task writes no progress in the
\* step in which it finds the task stopped
StoppedJobWritesNoProgress ==
    [][\A j \in DOMAIN jobs :
          /\ ~jobs[j].ended
          /\ jobs'[j] # jobs[j]
          /\ tasks.tasks[jobs[j].task_id].status = "stopped"
          => /\ jobs'[j].ended
             /\ tasks'.tasks[jobs[j].task_id].progress
                   = tasks.tasks[jobs[j].task_id].progress]_vars

\* the job that finds its task stopped marks it completed
StoppedBecomesCompleted ==
    [][\A j \in DOMAIN jobs :
          /\ ~jobs[j].ended
          /\ jobs'[j] # jobs[j]
          /\ tasks.tasks[jobs[j].task_id].status = "stopped"
          => tasks'.tasks[jobs[j].task_id].status = "completed"]_vars

====
